---- MODULE Spec2Model ----
(***************************************************************************)
(* GitWrite (src/app.js): the offline sync queue of the GitWrite class.    *)
(*                                                                         *)
(* The state is the GitWrite instance (syncQueue, isSyncing, github.token, *)
(* the editor text, the sync indicator), the IndexedDB object store        *)
(* 'queue' of database GitWriteDB, the IndexedDB transactions that were    *)
(* created and have not run yet, the position of every async function that *)
(* is suspended at an await, and navigator.onLine.                         *)
(*                                                                         *)
(* JavaScript runs one task at a time: an action is one task (an event     *)
(* handler, a timer callback, an IndexedDB request callback, or the        *)
(* completion of a fetch), together with the promise continuations         *)
(* (microtasks) that run before the next task.                             *)
(***************************************************************************)
EXTENDS Integers, Sequences, FiniteSets, TLC

\* Bounds of the model.
MaxJobs == 2        \* job ids 1..MaxJobs may be in the durable store at startup
MaxTxns == 1        \* purge and forgetToken are not called while more requests wait
NumPasses == 2      \* processSyncQueue invocations that can be suspended at once
MaxNotes == 1       \* note ids generateId can return

JobIds == 1..MaxJobs
Passes == 1..NumPasses
NoteIds == 1..MaxNotes

Undefined == "undefined"          \* a property the object does not have
Null == 0                         \* currentNote.id: null, of a note never saved
Texts == {"", " ", "draft", "redraft"}   \* editor.value
FirstDrafts == {"", "draft"}             \* of a user who writes one draft
Statuses == {"pending", "completed", "failed"}

VARIABLES
    online,        \* navigator.onLine
    indicator,     \* class of #sync-indicator: online | offline | syncing
    db,            \* this.db: opening (undefined) | open | failed (undefined)
    startupTimer,  \* the setTimeout(processSyncQueue, 1000) of startAutosave
    token,         \* this.github.token
    editor,        \* this.editor.value
    queueStore,    \* object store 'queue': key -> job
    syncQueue,     \* this.syncQueue
    isSyncing,     \* this.isSyncing
    passPc,        \* per processSyncQueue invocation: idle | commit | update
    pendingJobs,   \* per invocation: const pendingJobs
    passIdx,       \* per invocation: position of the for..of loop
    passLog,       \* per invocation: the results commitToGitHub returned
    txns,          \* IndexedDB transactions on 'queue', in creation order
    svPc,          \* saveToGitHub: idle | getFile | put | enqueue
    notesStore,    \* object store 'notes': key -> content of the note
    currentNote,   \* this.currentNote.id
    autosaveTimer, \* the setTimeout(autosaveNote) of scheduleAutosave is set
    codec,         \* a text on its way to the repository and back
    pub,           \* a publish to a path of the repository, and the object
                   \* at that path
    cred,          \* localStorage and sessionStorage (the token each key
                   \* holds), this.github.rememberToken ("true", "false"
                   \* or undefined), and whether the settings in force were
                   \* saved with #remember-token ticked
    sw,            \* the service worker: its phase, the caches in the order
                   \* they were created, the cache.put calls under way and
                   \* the request handleFetch is answering
    lastEvent      \* the task that ran last (for the tasks the properties
                   \* name), the job it handed to addToSyncQueue, whether
                   \* it ended in an exception or a rejection nobody
                   \* handles, and the notifications it showed

vars == <<online, indicator, db, startupTimer, token, editor, queueStore,
          syncQueue, isSyncing, passPc, pendingJobs, passIdx, passLog, txns,
          svPc, notesStore, currentNote, autosaveTimer, codec, pub,
          cred, sw, lastEvent>>

passVars == <<isSyncing, passPc, pendingJobs, passIdx, passLog>>

noteVars == <<notesStore, currentNote, autosaveTimer>>

\* The GitWrite instance and its stores, but for lastEvent.
appVars == <<online, indicator, db, startupTimer, token, editor, queueStore,
             syncQueue, passVars, txns, svPc, noteVars>>

\* What lies outside the GitWrite instance and its stores.
extVars == <<codec, pub, cred, sw>>

-----------------------------------------------------------------------------
\* Jobs and the object store

\* A job as commitToGitHub reads it, updateQueueJob finds it (keyPath 'id')
\* and isNoteQueued matches it with a note (job.noteId).
StoredJob(i, s) ==
    [id |-> i, type |-> "github", status |-> s,
     error |-> IF s = "failed" THEN "Failed to fetch" ELSE Undefined,
     content |-> "draft", timestamp |-> "t0", createdAt |-> "t0",
     path |-> "notes/d.md", commitMessage |-> "Add note d",
     repo |-> "o/r", token |-> "tok", noteId |-> 1]

\* The object literal saveToGitHub passes to addToSyncQueue.
EnqueuedJob(text) ==
    [id |-> Undefined, type |-> "github", status |-> Undefined,
     error |-> Undefined, content |-> text, timestamp |-> "now",
     createdAt |-> Undefined, path |-> Undefined,
     commitMessage |-> Undefined, repo |-> Undefined, token |-> Undefined,
     noteId |-> Undefined]

NoJob == [id |-> Undefined]         \* where no job is meant

Event(task, job, uncaught, notifs) ==
    [task |-> task, job |-> job, uncaught |-> uncaught,
     notifications |-> notifs]

\* A task that showed the notifications notifs (showNotification) and ended
\* normally.
Did(task, notifs) == Event(task, NoJob, FALSE, notifs)

\* A task that handed no job to addToSyncQueue and showed no notification.
Ran(task) == Did(task, <<>>)

\* A task that ended in an exception no handler catches, or in the rejection
\* of a promise nobody waits for.
Threw(task) == Event(task, NoJob, TRUE, <<>>)

\* (a clear that spares the pending jobs)
EmptyStore_KeepsPending ==
    [k \in {j \in DOMAIN queueStore : queueStore[j].status = "pending"}
        |-> queueStore[k]]

\* The 'queue' store after store.clear().
EmptyStore == [k \in {} |-> NoJob]

\* The 'notes' store of a profile in which no note was saved yet (notes of an
\* earlier session are notes that were autosaved before newNote was clicked).
EmptyNotes == [k \in {} |-> ""]

\* The jobs a previous session can have left in the store, by status.
InitialStores ==
    UNION { [1..n -> Statuses] : n \in 0..MaxJobs }

StoreOf(f) == [k \in DOMAIN f |-> StoredJob(k, f[k])]

RECURSIVE SortedKeys(_)
SortedKeys(S) ==
    IF S = {} THEN <<>>
    ELSE LET m == CHOOSE x \in S : \A y \in S : x <= y
         IN  <<m>> \o SortedKeys(S \ {m})

\* IDBObjectStore.getAll(): every record, in key order.
GetAll(store) ==
    LET ks == SortedKeys(DOMAIN store)
    IN  [i \in 1..Len(ks) |-> store[ks[i]]]

\* IDBObjectStore.put(job) on a store with keyPath 'id' and no key generator:
\* a value without the key throws DataError.
HasKey(job) == job.id # Undefined

StorePut(store, job) ==
    [k \in (DOMAIN store) \cup {job.id} |-> IF k = job.id THEN job ELSE store[k]]

StoreDelete(store, ks) == [k \in (DOMAIN store) \ ks |-> store[k]]

IsBlank(text) == text \in {"", " "}      \* !text.trim()

\* generateId(): an id no note has (the model has MaxNotes ids).
FreeNoteIds == NoteIds \ DOMAIN notesStore

\* autosaveNote: id: this.currentNote.id || this.generateId()
NoteIdFor(cur) ==
    IF cur # Null THEN cur
    ELSE CHOOSE i \in FreeNoteIds : \A j \in FreeNoteIds : i <= j

CanAutosave == currentNote # Null \/ FreeNoteIds # {}

\* (a store.add: the record a key already has is kept)
NotesPut_KeepsOld(notes, id, text) ==
    [k \in (DOMAIN notes) \cup {id} |->
        IF k \in DOMAIN notes THEN notes[k] ELSE text]

\* saveNoteToIndexedDB: store.put(note) on 'notes' (keyPath 'id')
NotesPut(notes, id, text) ==
    [k \in (DOMAIN notes) \cup {id} |-> IF k = id THEN text ELSE notes[k]]

\* (an autosave without its guard on the editor text)
AutosavedNotes_SavesBlank ==
    IF db # "open" \/ ~CanAutosave
    THEN notesStore
    ELSE NotesPut(notesStore, NoteIdFor(currentNote), editor)

\* The 'notes' store after autosaveNote ran with the editor as it is;
\* this.db.transaction throws while this.db is undefined.
AutosavedNotes ==
    IF IsBlank(editor) \/ db # "open"
    THEN notesStore
    ELSE NotesPut(notesStore, NoteIdFor(currentNote), editor)

\* autosaveNote gets past its guard and saveNoteToIndexedDB calls
\* this.db.transaction while this.db is undefined: a TypeError that rejects
\* the promise of autosaveNote, which no caller waits for.
SaveNoteThrows == ~IsBlank(editor) /\ db # "open"

\* (a delete that also removes the queue jobs of the note)
DeleteNoteEffect_Cascades(notes, queue, id) ==
    [notes |-> [k \in (DOMAIN notes) \ {id} |-> notes[k]],
     queue |-> StoreDelete(queue, {k \in DOMAIN queue : queue[k].noteId = id})]

\* deleteNote: a transaction of scope ['notes'] with store.delete(noteId).
DeleteNoteEffect(notes, queue, id) ==
    [notes |-> [k \in (DOMAIN notes) \ {id} |-> notes[k]],
     queue |-> queue]

-----------------------------------------------------------------------------
\* Pieces of processSyncQueue, commitToGitHub and clearCompletedJobs

\* (a guard that forgets navigator.onLine)
ShouldSkipDrain_IgnoresOffline(syncing, onl) == syncing

\* (a guard that forgets this.isSyncing)
ShouldSkipDrain_IgnoresSyncing(syncing, onl) == ~onl

\* processSyncQueue's guard: if (this.isSyncing || !navigator.onLine) return;
ShouldSkipDrain(syncing, onl) == syncing \/ ~onl

\* (a filter that also takes the failed jobs)
SelectPending_AndFailed(q) ==
    SelectSeq(q, LAMBDA job : job.status \in {"pending", "failed"})

\* this.syncQueue.filter(job => job.status === 'pending')
SelectPending(q) == SelectSeq(q, LAMBDA job : job.status = "pending")

\* (a catch that queues every failed save)
ShouldEnqueue_Always(onl) == TRUE

\* saveToGitHub's catch: if (!navigator.onLine) addToSyncQueue(...)
ShouldEnqueue(onl) == ~onl

\* What the network lets a publish end with.
FetchOutcomes(onl) ==
    IF onl THEN { [ok |-> TRUE, message |-> Undefined],
                  [ok |-> FALSE, message |-> "Conflict"] }
           ELSE { [ok |-> FALSE, message |-> "Failed to fetch"] }

\* (a commitToGitHub without its try/catch: a failed publish throws)
CommitResult_Rethrows(o) ==
    [threw |-> ~o.ok, success |-> o.ok, error |-> o.message]

\* commitToGitHub: every error is caught and returned as {success: false, error}.
CommitResult(o) ==
    [threw |-> FALSE, success |-> o.ok, error |-> o.message]

\* (a result handler that records no error)
UpdatesFor_DropsError(result) ==
    IF result.success
    THEN [status |-> "completed", setsError |-> FALSE, error |-> Undefined]
    ELSE [status |-> "failed", setsError |-> FALSE, error |-> Undefined]

\* (a result handler that marks every job failed)
UpdatesFor_AlwaysFailed(result) ==
    [status |-> "failed", setsError |-> TRUE, error |-> result.error]

\* (a result handler that marks every job completed)
UpdatesFor_AlwaysCompleted(result) ==
    [status |-> "completed", setsError |-> FALSE, error |-> Undefined]

\* The updates processSyncQueue passes to updateQueueJob for a result.
UpdatesFor(result) ==
    IF result.success
    THEN [status |-> "completed", setsError |-> FALSE, error |-> Undefined]
    ELSE [status |-> "failed", setsError |-> TRUE, error |-> result.error]

\* (an update that drops the status)
Assign_KeepsStatus(job, u) ==
    [job EXCEPT !.error = IF u.setsError THEN u.error ELSE @]

\* (an update that takes the content from the editor as it is now)
Assign_ReadsEditor(job, u) ==
    [job EXCEPT !.status = u.status,
                !.error = IF u.setsError THEN u.error ELSE @,
                !.content = editor]

\* Object.assign(job, updates)
Assign(job, u) ==
    [job EXCEPT !.status = u.status,
                !.error = IF u.setsError THEN u.error ELSE @]

\* (a purge of every job that is no longer pending)
CompletedKeys_NotPending(store) ==
    {k \in DOMAIN store : store[k].status # "pending"}

\* clearCompletedJobs: index.getAll('completed'), the keys it deletes.
CompletedKeys(store) == {k \in DOMAIN store : store[k].status = "completed"}

\* The IndexedDB transactions on 'queue' the program creates.
GetAllTxn == [op |-> "getAll"]                      \* loadSyncQueue
UpdateTxn(id, u, p) ==                              \* updateQueueJob, awaited by pass p
    [op |-> "update", id |-> id, updates |-> u, pass |-> p]
PurgeTxn == [op |-> "purge"]                        \* clearCompletedJobs
ClearTxn == [op |-> "clear"]                        \* forgetToken
PutTxn(job) == [op |-> "put", job |-> job]          \* addToSyncQueue

\* loadSyncQueue: if (!this.db) return; otherwise store.getAll() is requested.
LoadSyncQueue(q) == IF db = "open" THEN Append(q, GetAllTxn) ELSE q

\* (a pass that reports every job as synced)
JobNotification_AlwaysSynced(p) == "Note synced to GitHub"

\* processSyncQueue after updateQueueJob resolved: the notification for the
\* result commitToGitHub returned for the job.
JobNotification(p) ==
    IF passLog[p][Len(passLog[p])].success
    THEN "Note synced to GitHub"
    ELSE "Sync failed"

IdlePasses == {p \in Passes : passPc[p] = "idle"}
ActivePasses == Passes \ IdlePasses
FreePass == CHOOSE p \in IdlePasses : \A r \in IdlePasses : p <= r

\* (a processSyncQueue that never starts a pass)
processSyncQueue_NeverDrains(onl, ind) ==
    /\ indicator' = ind
    /\ UNCHANGED passVars

\* processSyncQueue up to its first await, called with navigator.onLine = onl
\* and the indicator its caller left.
processSyncQueue(onl, ind) ==
    IF \/ ShouldSkipDrain(isSyncing, onl)
       \/ Len(SelectPending(syncQueue)) = 0
       \/ IdlePasses = {}
    THEN /\ indicator' = ind
         /\ UNCHANGED passVars
    ELSE /\ isSyncing' = TRUE
         /\ indicator' = "syncing"
         /\ passPc' = [passPc EXCEPT ![FreePass] = "commit"]
         /\ pendingJobs' = [pendingJobs EXCEPT ![FreePass] = SelectPending(syncQueue)]
         /\ passIdx' = [passIdx EXCEPT ![FreePass] = 1]
         /\ passLog' = [passLog EXCEPT ![FreePass] = <<>>]

-----------------------------------------------------------------------------
\* Texts on their way to the repository: utf8ToBase64, base64ToUtf8, btoa, atob
\*
\* A JavaScript string is a sequence of UTF-16 code units; a binary string
\* (what btoa takes and atob returns) is a sequence of code units below 256;
\* a base64 string is a sequence of digits 0..63 and the padding '='.

MaxTextLen == 3     \* code units of a published text

\* c, e acute (U+00E9), hot beverage (U+2615), and the two code units of
\* U+1F600: texts of 1, 2, 3 and 4 UTF-8 bytes a character, and the strings
\* with a surrogate that has no partner.
CodeUnits == {99, 233, 9749, 55357, 56832}

Strings == UNION { [1..n -> CodeUnits] : n \in 0..MaxTextLen }

Pad == 64                            \* '=' of base64

Ok(v) == [ok |-> TRUE, value |-> v, error |-> Undefined]
Fail(e) == [ok |-> FALSE, value |-> <<>>, error |-> e]

IsHigh(u) == u \in 55296..56319      \* D800..DBFF
IsLow(u) == u \in 56320..57343       \* DC00..DFFF

\* The code points of a string; a surrogate without its partner is what
\* encodeURIComponent throws URIError for.
RECURSIVE CodePoints(_)
CodePoints(str) ==
    IF str = <<>> THEN Ok(<<>>)
    ELSE IF IsHigh(str[1]) /\ Len(str) >= 2 /\ IsLow(str[2])
    THEN LET rest == CodePoints(SubSeq(str, 3, Len(str)))
         IN  IF rest.ok
             THEN Ok(<<65536 + (str[1] - 55296) * 1024 + (str[2] - 56320)>>
                     \o rest.value)
             ELSE rest
    ELSE IF IsHigh(str[1]) \/ IsLow(str[1])
    THEN Fail("URIError")
    ELSE LET rest == CodePoints(Tail(str))
         IN  IF rest.ok THEN Ok(<<str[1]>> \o rest.value) ELSE rest

IsWellFormed(str) == CodePoints(str).ok

\* The UTF-8 bytes of a code point.
Utf8Of(cp) ==
    IF cp < 128 THEN <<cp>>
    ELSE IF cp < 2048 THEN <<192 + (cp \div 64), 128 + (cp % 64)>>
    ELSE IF cp < 65536
    THEN <<224 + (cp \div 4096), 128 + ((cp \div 64) % 64), 128 + (cp % 64)>>
    ELSE <<240 + (cp \div 262144), 128 + ((cp \div 4096) % 64),
           128 + ((cp \div 64) % 64), 128 + (cp % 64)>>

RECURSIVE Utf8OfAll(_)
Utf8OfAll(cps) ==
    IF cps = <<>> THEN <<>> ELSE Utf8Of(cps[1]) \o Utf8OfAll(Tail(cps))

\* unescape(encodeURIComponent(str)): the UTF-8 bytes of str as a binary string
Utf8Bytes(str) ==
    LET cps == CodePoints(str)
    IN  IF cps.ok THEN Ok(Utf8OfAll(cps.value)) ELSE cps

\* base64 of a sequence of bytes
RECURSIVE B64Encode(_)
B64Encode(b) ==
    IF Len(b) = 0 THEN <<>>
    ELSE IF Len(b) = 1
    THEN <<(b[1] \div 4), (b[1] % 4) * 16, Pad, Pad>>
    ELSE IF Len(b) = 2
    THEN <<(b[1] \div 4), (b[1] % 4) * 16 + (b[2] \div 16),
           (b[2] % 16) * 4, Pad>>
    ELSE <<(b[1] \div 4), (b[1] % 4) * 16 + (b[2] \div 16),
           (b[2] % 16) * 4 + (b[3] \div 64), (b[3] % 64)>>
         \o B64Encode(SubSeq(b, 4, Len(b)))

\* btoa(bin): InvalidCharacterError for a code unit above 255
btoa(bin) ==
    IF \E i \in 1..Len(bin) : bin[i] > 255
    THEN Fail("InvalidCharacterError")
    ELSE Ok(B64Encode(bin))

\* atob(b64), of a base64 string btoa or GitHub made
RECURSIVE atob(_)
atob(b64) ==
    IF Len(b64) = 0 THEN <<>>
    ELSE LET first == b64[1] * 4 + (b64[2] \div 16)
             second == (b64[2] % 16) * 16 + (b64[3] \div 4)
             third == (b64[3] % 4) * 64 + b64[4]
         IN  IF b64[3] = Pad THEN <<first>>
             ELSE IF b64[4] = Pad THEN <<first, second>>
             ELSE <<first, second, third>> \o atob(SubSeq(b64, 5, Len(b64)))

\* The code units of a code point.
UnitsOf(cp) ==
    IF cp < 65536 THEN <<cp>>
    ELSE <<55296 + ((cp - 65536) \div 1024), 56320 + ((cp - 65536) % 1024)>>

\* decodeURIComponent(escape(bin)): the string whose UTF-8 bytes are bin;
\* URIError for bytes that are not the UTF-8 of a string.
RECURSIVE Utf8Text(_)
Utf8Text(bin) ==
    IF bin = <<>> THEN Ok(<<>>)
    ELSE LET n == IF bin[1] < 128 THEN 1
                  ELSE IF bin[1] \in 194..223 THEN 2
                  ELSE IF bin[1] \in 224..239 THEN 3
                  ELSE IF bin[1] \in 240..244 THEN 4
                  ELSE 0
         IN  IF n = 0 \/ Len(bin) < n
                \/ \E i \in 2..n : bin[i] \notin 128..191
             THEN Fail("URIError")
             ELSE LET cp == IF n = 1 THEN bin[1]
                            ELSE IF n = 2
                            THEN (bin[1] - 192) * 64 + (bin[2] - 128)
                            ELSE IF n = 3
                            THEN (bin[1] - 224) * 4096 + (bin[2] - 128) * 64
                                 + (bin[3] - 128)
                            ELSE (bin[1] - 240) * 262144
                                 + (bin[2] - 128) * 4096
                                 + (bin[3] - 128) * 64 + (bin[4] - 128)
                      rest == Utf8Text(SubSeq(bin, n + 1, Len(bin)))
                  IN  IF \/ n = 3 /\ (cp < 2048 \/ cp \in 55296..57343)
                         \/ n = 4 /\ (cp < 65536 \/ cp > 1114111)
                      THEN Fail("URIError")
                      ELSE IF rest.ok THEN Ok(UnitsOf(cp) \o rest.value)
                      ELSE rest

\* function utf8ToBase64(str) { return btoa(unescape(encodeURIComponent(str))); }
utf8ToBase64(str) ==
    LET bin == Utf8Bytes(str)
    IN  IF bin.ok THEN btoa(bin.value) ELSE bin

\* function base64ToUtf8(str) { return decodeURIComponent(escape(atob(str))); }
base64ToUtf8(str) == Utf8Text(atob(str))

\* Who builds the content field of the PUT: commitToGitHub (the drain) and
\* the two definitions of GitHubService.createOrUpdateFile that saveToGitHub
\* can find loaded (the page defines the class once; which file does it is
\* not in the sources).
Publishers == {"commitToGitHub", "part_000", "services/github.js"}

\* The content field: utf8ToBase64(job.content) in commitToGitHub and
\* utf8ToBase64(content) in part_000, btoa(content) in services/github.js.
ContentField(via, text) ==
    IF via = "services/github.js" THEN btoa(text) ELSE utf8ToBase64(text)

NoTransfer ==
    [pc |-> "idle", text |-> <<>>, via |-> Undefined, file |-> <<>>,
     result |-> Ok(<<>>)]

-----------------------------------------------------------------------------
\* Publishing to a path: GitHubService.getFile and createOrUpdateFile,
\* commitToGitHub, and the repository they talk to

MaxSha == 2         \* blob shas 1..MaxSha other writers can leave at the path

NoSha == 0          \* let sha; / let sha = null;  (and: no object at the path)
Shas == 1..MaxSha
OwnSha == MaxSha + 1                 \* the sha of the content being published

\* What the contents API can answer to the GET of the path when the object
\* at the path has sha remote (NoSha: there is none), and what fetch can do.
GetReplies(remote) ==
    { IF remote = NoSha
      THEN [kind |-> "notFound", ok |-> FALSE, sha |-> NoSha]         \* 404
      ELSE [kind |-> "found", ok |-> TRUE, sha |-> remote],           \* 200
      [kind |-> "unauthorized", ok |-> FALSE, sha |-> NoSha],         \* 401
      [kind |-> "serverError", ok |-> FALSE, sha |-> NoSha],          \* 5xx
      [kind |-> "networkError", ok |-> FALSE, sha |-> NoSha] }        \* fetch rejects

\* What the contents API answers to the PUT: it creates the object if there
\* is none and no sha came, replaces it if the sha that came is the sha of
\* the object, and refuses otherwise.
PutReplies(remote, sha) ==
    { IF remote = sha
      THEN [kind |-> "written", ok |-> TRUE, message |-> Undefined]
      ELSE [kind |-> "conflict", ok |-> FALSE, message |-> "Conflict"],
      [kind |-> "unauthorized", ok |-> FALSE, message |-> "Bad credentials"],
      [kind |-> "networkError", ok |-> FALSE, message |-> "Failed to fetch"] }

\* GitHubService.getFile: throws Error('File not found') unless response.ok
\* (and rejects as fetch does).
getFile(reply) ==
    IF reply.kind = "networkError" THEN Fail("Failed to fetch")
    ELSE IF ~reply.ok THEN Fail("File not found")
    ELSE Ok(reply.sha)

Services == {"createOrUpdateFile", "commitToGitHub"}

\* What the publish does with the answer to its GET.
\*   createOrUpdateFile: try { sha = (await this.getFile(...)).sha } catch {}
\*   commitToGitHub:     if (fileResponse.ok) sha = fileData.sha; a fetch that
\*                       rejects ends commitToGitHub in its catch
AfterGet(via, reply) ==
    IF via = "createOrUpdateFile"
    THEN LET existing == getFile(reply)
         IN  [writes |-> TRUE,
              sha |-> IF existing.ok THEN existing.value ELSE NoSha,
              reported |-> existing.error]
    ELSE [writes |-> reply.kind # "networkError",
          sha |-> IF reply.ok THEN reply.sha ELSE NoSha,
          reported |-> IF reply.kind = "networkError"
                       THEN "Failed to fetch" ELSE Undefined]

NoPublish(remote) ==
    [pc |-> "idle", via |-> Undefined, remote |-> remote, seen |-> NoSha,
     got |-> Undefined, reported |-> Undefined, sha |-> NoSha,
     put |-> Undefined, error |-> Undefined]

-----------------------------------------------------------------------------
\* The GitHub settings in localStorage and sessionStorage

Absent == "absent"                   \* getItem returns null
SettingsKey == "github-settings"     \* the key saveGitHubSettings writes
RestoreKey == "gitwrite-github"      \* the key restoreNote and forgetToken use
StorageKeys == {SettingsKey, RestoreKey}

\* saveGitHubSettings: this.github = {token, owner, repo, branch,
\* pathTemplate, commitMessage}; #remember-token is not read.
NewGithub(tok, remember) == [token |-> tok, rememberToken |-> Undefined]

\* saveGitHubSettings: token: this.github.rememberToken ? token : ''
StoredToken(github) ==
    IF github.rememberToken = "true" THEN github.token ELSE ""

\* restoreNote: localStorage.getItem('gitwrite-github') ||
\* sessionStorage.getItem('gitwrite-github'), merged over the initial
\* this.github, whose token is ''.
RestoredToken(c) ==
    IF c.local[RestoreKey] # Absent THEN c.local[RestoreKey]
    ELSE IF c.session[RestoreKey] # Absent THEN c.session[RestoreKey]
    ELSE ""

\* A profile that never saved GitHub settings.
FirstVisit ==
    [local |-> [k \in StorageKeys |-> Absent],
     session |-> [k \in StorageKeys |-> Absent],
     rememberToken |-> "false",
     wanted |-> FALSE]

\* ---------------------------------------------------------------------
\* The service worker (src/sw.js).  A pathname is the sequence of its
\* pieces, the extension last, so that endsWith looks at the last piece.

CACHE_NAME == "gitwrite-v1"
STATIC_CACHE == "gitwrite-static-v1"
OldCache == "gitwrite-v0"            \* a cache an earlier generation left
Origin == "gitwrite.app"             \* the host the worker is served from
ApiHost == "api.github.com"

IndexHtml == <<"/", "index", ".html">>

\* STATIC_FILES as install hands them to cache.addAll: `/${url}`, which the
\* URL parser resolves against the origin ('/./index.html' is /index.html).
STATIC_FILES ==
    {<<"/">>, IndexHtml, <<"/", "styles", ".css">>, <<"/", "app", ".js">>,
     <<"/", "manifest", ".json">>, <<"/", "services", "/", "github", ".js">>}

isStaticFile(pathname) ==
    LET staticExtensions == {".css", ".js", ".html", ".ico", ".png", ".jpg",
                             ".svg", ".woff", ".woff2"}
        staticPaths == {<<"/">>, IndexHtml, <<"/", "manifest", ".json">>}
    IN  \/ pathname \in staticPaths
        \/ \E ext \in staticExtensions : pathname[Len(pathname)] = ext

\* new URL(request.url): what a cache is keyed by
Url(hostname, pathname) == [hostname |-> hostname, pathname |-> pathname]

Request(method, hostname, pathname, mode) ==
    [method |-> method, url |-> Url(hostname, pathname), mode |-> mode]

\* The requests of the pages the worker controls.
Requests ==
    {Request("GET", Origin, IndexHtml, "navigate"),
     Request("GET", Origin, <<"/", "logo", ".png">>, "no-cors"),
     Request("GET", Origin, <<"/", "notes">>, "navigate"),
     Request("GET", Origin, <<"/", "feed", ".json">>, "cors"),
     Request("POST", Origin, <<"/", "notes">>, "cors"),
     Request("GET", ApiHost, <<"/", "user">>, "cors"),
     Request("GET", "fonts.example", <<"/", "font", ".woff2">>, "cors")}

Response(status, body) == [status |-> status, body |-> body]

IsOk(response) == response.status \in 200..299     \* Response.ok

\* What the server holds changes over time.
Bodies == {"v1", "v2"}

\* fetch(request) resolves with the server's response, or rejects when the
\* network is down.
NetworkReplies ==
    {Ok(Response(200, body)) : body \in Bodies}
        \cup {Ok(Response(404, "Not Found")), Fail("TypeError")}

\* handleFetch: the basic offline response
Unavailable ==
    Response(503, "Offline - GitWrite is not available without an internet connection")

\* caches.match(url): the responses stored for the url, cache by cache in
\* the order the caches were created; the promise resolves with the first,
\* or with undefined when there is none.
Matches(storage, url) ==
    LET holding == SelectSeq(storage, LAMBDA c : url \in DOMAIN c.entries)
    IN  [i \in 1..Len(holding) |-> holding[i].entries[url]]

\* caches.open(name): creates the cache if there is none of that name
Opened(storage, name) ==
    IF \E i \in 1..Len(storage) : storage[i].name = name
    THEN storage
    ELSE Append(storage, [name |-> name, entries |-> << >>])

\* cache.put(request, response) has completed
Stored(storage, name, url, response) ==
    [i \in 1..Len(storage) |->
        IF storage[i].name = name
        THEN [storage[i] EXCEPT !.entries = (url :> response) @@ @]
        ELSE storage[i]]

\* the cache.put calls that have not completed yet, at most
MaxPuts == 1

\* The script has been evaluated: nothing is installed, no request is being
\* answered, and the cache of the generation before is still there.
InitialWorker ==
    [phase |-> "parsed", skipWaiting |-> FALSE, claimed |-> FALSE,
     cleaned |-> FALSE,
     storage |-> <<[name |-> OldCache,
                    entries |-> Url(Origin, IndexHtml) :> Response(200, "v0")]>>,
     puts |-> {},
     req |-> [pc |-> "idle"]]

-----------------------------------------------------------------------------
Init ==
    /\ online \in BOOLEAN
    /\ indicator = IF online THEN "online" ELSE "offline"
    /\ db = "opening"
    /\ startupTimer = online
    /\ token = ""
    /\ editor = ""
    /\ \E f \in InitialStores : queueStore = StoreOf(f)
    /\ syncQueue = <<>>
    /\ isSyncing = FALSE
    /\ passPc = [p \in Passes |-> "idle"]
    /\ pendingJobs = [p \in Passes |-> <<>>]
    /\ passIdx = [p \in Passes |-> 0]
    /\ passLog = [p \in Passes |-> <<>>]
    /\ txns = <<>>
    /\ svPc = "idle"
    /\ notesStore = EmptyNotes
    /\ currentNote = Null
    /\ autosaveTimer = FALSE
    /\ codec = NoTransfer
    /\ pub = NoPublish(NoSha)
    /\ cred = FirstVisit
    /\ sw = InitialWorker
    /\ lastEvent = Ran("other")

\* The purge timer and the forget-token click come while few requests wait.
Calm == Len(txns) < MaxTxns

\* indexedDB.open succeeded: request.onsuccess
OpenSuccess ==
    /\ db = "opening"
    /\ db' = "open"
    /\ txns' = Append(txns, GetAllTxn)
    /\ lastEvent' = Ran("other")
    /\ UNCHANGED <<online, indicator, startupTimer, token, editor, queueStore,
                   syncQueue, passVars, svPc>>
    /\ UNCHANGED noteVars
    /\ UNCHANGED extVars

\* indexedDB.open failed: request.onerror
OpenError ==
    /\ db = "opening"
    /\ db' = "failed"
    /\ lastEvent' = Threw("openError")   \* the constructor drops the promise
    /\ UNCHANGED <<online, indicator, startupTimer, token, editor, queueStore,
                   syncQueue, passVars, svPc, txns>>
    /\ UNCHANGED noteVars
    /\ UNCHANGED extVars

\* window 'online' event
handleOnline ==
    /\ ~online
    /\ online' = TRUE
    /\ processSyncQueue(TRUE, "online")
    /\ lastEvent' = Ran("handleOnline")
    /\ UNCHANGED <<db, startupTimer, token, editor, queueStore, syncQueue,
                   svPc, txns>>
    /\ UNCHANGED noteVars
    /\ UNCHANGED extVars

\* window 'offline' event
handleOffline ==
    /\ online
    /\ online' = FALSE
    /\ indicator' = "offline"
    /\ lastEvent' = Ran("other")
    /\ UNCHANGED <<db, startupTimer, token, editor, queueStore, syncQueue,
                   passVars, svPc, txns>>
    /\ UNCHANGED noteVars
    /\ UNCHANGED extVars

\* click on #sync-now
syncNow ==
    /\ IF ~online
       THEN UNCHANGED <<indicator, passVars>>
       ELSE processSyncQueue(online, indicator)
    /\ lastEvent' = IF ~online
                    THEN Did("syncNow", <<"No internet connection">>)
                    ELSE Ran("syncNow")
    /\ UNCHANGED <<online, db, startupTimer, token, editor, queueStore,
                   syncQueue, svPc, txns>>
    /\ UNCHANGED noteVars
    /\ UNCHANGED extVars

\* the one-second timer startAutosave sets when the app starts online
StartupDrain ==
    /\ startupTimer
    /\ startupTimer' = FALSE
    /\ processSyncQueue(online, indicator)
    /\ lastEvent' = Ran("startupDrain")
    /\ UNCHANGED <<online, db, token, editor, queueStore, syncQueue,
                   svPc, txns>>
    /\ UNCHANGED noteVars
    /\ UNCHANGED extVars

\* commitToGitHub(job) returns to processSyncQueue, which calls updateQueueJob.
CommitDone(p) ==
    /\ passPc[p] = "commit"
    /\ \E o \in FetchOutcomes(online) :
         LET job == pendingJobs[p][passIdx[p]]
             result == CommitResult(o)
         IN  IF result.threw
             THEN /\ passPc' = [passPc EXCEPT ![p] = "idle"]
                  /\ pendingJobs' = [pendingJobs EXCEPT ![p] = <<>>]
                  /\ passIdx' = [passIdx EXCEPT ![p] = 0]
                  /\ passLog' = [passLog EXCEPT ![p] = <<>>]
                  /\ UNCHANGED txns
             ELSE /\ passLog' = [passLog EXCEPT ![p] =
                        Append(@, [id |-> job.id, success |-> result.success,
                                   error |-> result.error])]
                  /\ passPc' = [passPc EXCEPT ![p] = "update"]
                  /\ txns' = Append(txns, UpdateTxn(job.id, UpdatesFor(result), p))
                  /\ UNCHANGED <<pendingJobs, passIdx>>
    /\ lastEvent' = Ran("other")
    /\ UNCHANGED <<online, indicator, db, startupTimer, token, editor,
                   queueStore, syncQueue, isSyncing, svPc>>
    /\ UNCHANGED noteVars
    /\ UNCHANGED extVars

\* The oldest IndexedDB transaction on 'queue' runs and its request callbacks
\* fire; transactions whose scopes overlap run in the order of their creation.
\*   getAll  loadSyncQueue's request.onsuccess
\*   update  updateQueueJob's get and put, then processSyncQueue resumes
\*   purge   clearCompletedJobs' request.onsuccess
\*   clear   forgetToken's store.clear()
\*   put     addToSyncQueue's request.onsuccess, then saveToGitHub resumes
IdbStep ==
    /\ Len(txns) > 0
    /\ LET t == Head(txns)
           rest == Tail(txns)
           p == t.pass          \* of an update
       IN
       CASE t.op = "getAll" ->
              /\ syncQueue' = GetAll(queueStore)
              /\ txns' = rest
              /\ lastEvent' = Ran("getAll")
              /\ UNCHANGED <<queueStore, indicator, passVars, svPc>>
         [] t.op = "update" /\ t.id \in DOMAIN queueStore ->
              /\ queueStore' = StorePut(queueStore, Assign(queueStore[t.id], t.updates))
              /\ IF passIdx[p] < Len(pendingJobs[p])
                 THEN \* the loop goes on: commitToGitHub(next job)
                      /\ passIdx' = [passIdx EXCEPT ![p] = @ + 1]
                      /\ passPc' = [passPc EXCEPT ![p] = "commit"]
                      /\ txns' = rest
                      /\ lastEvent' = Did("updateNext", <<JobNotification(p)>>)
                      /\ UNCHANGED <<isSyncing, indicator, pendingJobs, passLog>>
                 ELSE \* await this.loadSyncQueue(); this.isSyncing = false; ...
                      /\ passPc' = [passPc EXCEPT ![p] = "idle"]
                      /\ txns' = LoadSyncQueue(rest)
                      /\ isSyncing' = FALSE
                      /\ indicator' = IF online THEN "online" ELSE "offline"
                      /\ lastEvent' = Did("updateEnd", <<JobNotification(p)>>)
                      /\ pendingJobs' = [pendingJobs EXCEPT ![p] = <<>>]
                      /\ passIdx' = [passIdx EXCEPT ![p] = 0]
                      /\ passLog' = [passLog EXCEPT ![p] = <<>>]
              /\ UNCHANGED <<syncQueue, svPc>>
         [] t.op = "update" /\ t.id \notin DOMAIN queueStore ->
              \* reject(new Error('Job not found')): processSyncQueue ends there
              /\ passPc' = [passPc EXCEPT ![p] = "idle"]
              /\ txns' = rest
              /\ lastEvent' = Threw("updateRejected")
              /\ pendingJobs' = [pendingJobs EXCEPT ![p] = <<>>]
              /\ passIdx' = [passIdx EXCEPT ![p] = 0]
              /\ passLog' = [passLog EXCEPT ![p] = <<>>]
              /\ UNCHANGED <<queueStore, syncQueue, indicator, isSyncing, svPc>>
         [] t.op = "purge" ->
              /\ queueStore' = StoreDelete(queueStore, CompletedKeys(queueStore))
              /\ txns' = LoadSyncQueue(rest)
              /\ lastEvent' = Ran("purge")
              /\ UNCHANGED <<syncQueue, indicator, passVars, svPc>>
         [] t.op = "clear" ->
              /\ queueStore' = EmptyStore
              /\ txns' = rest
              /\ lastEvent' = Ran("clear")
              /\ UNCHANGED <<syncQueue, indicator, passVars, svPc>>
         [] t.op = "put" ->
              /\ queueStore' = StorePut(queueStore, t.job)
              /\ txns' = LoadSyncQueue(rest)
              /\ svPc' = "idle"
              /\ lastEvent' = Did("queued", <<"Added to sync queue">>)
              /\ UNCHANGED <<syncQueue, indicator, passVars>>
    /\ UNCHANGED <<online, db, startupTimer, token, editor>>
    /\ UNCHANGED noteVars
    /\ UNCHANGED extVars

\* the five-minute interval of startAutosave calls clearCompletedJobs;
\* this.db.transaction throws while this.db is undefined
clearCompletedJobs ==
    /\ Calm
    /\ txns' = IF db = "open"
               THEN Append(txns, PurgeTxn)
               ELSE txns
    /\ lastEvent' = IF db = "open" THEN Ran("clearCompletedJobs")
                                   ELSE Threw("clearCompletedJobs")
    /\ UNCHANGED <<online, indicator, db, startupTimer, token, editor,
                   queueStore, syncQueue, passVars, svPc>>
    /\ UNCHANGED noteVars
    /\ UNCHANGED extVars

\* click on #forget-token, confirmed
forgetToken ==
    /\ Calm
    /\ token' = ""
    /\ txns' = IF db = "open"
               THEN LoadSyncQueue(Append(txns, ClearTxn))
               ELSE txns
    /\ lastEvent' = IF db = "open"
                    THEN Did("forgetToken", <<"GitHub token forgotten">>)
                    ELSE Threw("forgetToken")
    /\ cred' = [cred EXCEPT !.local[RestoreKey] = Absent,
                            !.session[RestoreKey] = Absent,
                            !.wanted = FALSE]
    /\ UNCHANGED <<online, indicator, db, startupTimer, editor, queueStore,
                   syncQueue, passVars, svPc>>
    /\ UNCHANGED noteVars
    /\ UNCHANGED <<codec, pub, sw>>

\* click on #save-github-settings with token, owner and repo filled in and
\* #remember-token ticked or not; the outcome of the connection test is
\* ignored (.catch(() => {}))
saveGitHubSettings(remember) ==
    /\ token = ""
    /\ LET github == NewGithub("tok", remember)
       IN  /\ token' = github.token
           /\ cred' = [cred EXCEPT !.rememberToken = github.rememberToken,
                                   !.local[SettingsKey] = StoredToken(github),
                                   !.wanted = remember]
    /\ lastEvent' = Did("other", <<"GitHub settings saved">>)
    /\ UNCHANGED <<online, indicator, db, startupTimer, editor, queueStore,
                   syncQueue, passVars, svPc, txns>>
    /\ UNCHANGED noteVars
    /\ UNCHANGED <<codec, pub, sw>>

\* The page is closed and opened again in a new session, with nothing in
\* flight: the constructor runs on what the stores and localStorage hold;
\* sessionStorage starts empty.
Restart ==
    /\ txns = <<>>
    /\ ActivePasses = {}
    /\ svPc = "idle"
    /\ db # "opening"
    /\ db' = "opening"
    /\ cred' = [cred EXCEPT !.session = [k \in StorageKeys |-> Absent],
                            !.rememberToken = "false"]
    /\ token' = RestoredToken(cred')
    /\ indicator' = IF online THEN "online" ELSE "offline"
    /\ startupTimer' = online
    /\ editor' = ""
    /\ syncQueue' = <<>>
    /\ isSyncing' = FALSE
    /\ currentNote' = Null
    /\ autosaveTimer' = FALSE
    /\ lastEvent' = Ran("restart")
    /\ UNCHANGED <<online, queueStore, notesStore, passPc, pendingJobs,
                   passIdx, passLog, txns, svPc, codec, pub, sw>>

\* 'input' event of the editor
handleEditorInput(text) ==
    /\ text # editor
    /\ editor' = text
    /\ autosaveTimer' = TRUE           \* scheduleAutosave
    /\ lastEvent' = Ran("other")
    /\ UNCHANGED <<online, indicator, db, startupTimer, token, queueStore,
                   syncQueue, passVars, svPc, txns, notesStore, currentNote>>
    /\ UNCHANGED extVars

\* the autosave timer of scheduleAutosave fires: autosaveNote.  The
\* transactions on 'notes' share no store with those on 'queue' and run in
\* the order of their creation, so their effect is taken where they are made.
autosaveNote ==
    /\ autosaveTimer
    /\ IsBlank(editor) \/ CanAutosave
    /\ autosaveTimer' = FALSE
    /\ notesStore' = AutosavedNotes
    /\ currentNote' = IF IsBlank(editor) THEN currentNote ELSE NoteIdFor(currentNote)
    /\ lastEvent' = IF SaveNoteThrows THEN Threw("autosaveNote")
                                      ELSE Ran("autosaveNote")
    /\ UNCHANGED <<online, indicator, db, startupTimer, token, editor,
                   queueStore, syncQueue, passVars, svPc, txns>>
    /\ UNCHANGED extVars

\* click on #new-note
newNote ==
    /\ IsBlank(editor) \/ CanAutosave
    /\ notesStore' = AutosavedNotes
    /\ currentNote' = Null
    /\ editor' = ""
    /\ lastEvent' = Event("newNote", NoJob, SaveNoteThrows,
                          <<"New note started">>)
    /\ UNCHANGED <<online, indicator, db, startupTimer, token, queueStore,
                   syncQueue, passVars, svPc, txns, autosaveTimer>>
    /\ UNCHANGED extVars

\* click on Open of a note in the history
loadNote(noteId) ==
    /\ db = "open"
    /\ noteId \in DOMAIN notesStore
    /\ editor' = notesStore[noteId]
    /\ currentNote' = noteId
    /\ lastEvent' = Ran("loadNote")
    /\ UNCHANGED <<online, indicator, db, startupTimer, token, queueStore,
                   syncQueue, passVars, svPc, txns, notesStore, autosaveTimer>>
    /\ UNCHANGED extVars

\* click on Delete of a note in the history, confirmed
deleteNote(noteId) ==
    /\ db = "open"
    /\ noteId \in DOMAIN notesStore
    /\ LET after == DeleteNoteEffect(notesStore, queueStore, noteId)
       IN  /\ notesStore' = after.notes
           /\ queueStore' = after.queue
    /\ lastEvent' = Did("deleteNote", <<"Note deleted">>)
    /\ UNCHANGED <<online, indicator, db, startupTimer, token, editor,
                   syncQueue, passVars, svPc, txns, currentNote, autosaveTimer>>
    /\ UNCHANGED extVars

\* addToSyncQueue(job), called from saveToGitHub's catch: this.db.transaction
\* throws while this.db is undefined, store.put throws DataError for a job
\* without the key; otherwise the put is requested and saveToGitHub waits.
addToSyncQueue(job) ==
    /\ lastEvent' = Event("saveFailedOffline", job, ~(db = "open" /\ HasKey(job)),
                          <<"GitHub save failed">>)
    /\ IF db = "open" /\ HasKey(job)
       THEN /\ txns' = Append(txns, PutTxn(job))
            /\ svPc' = "enqueue"
       ELSE /\ txns' = txns
            /\ svPc' = "idle"

\* click on #save-github (or Ctrl+S): saveToGitHub up to its first await
saveToGitHub ==
    /\ svPc = "idle"
    /\ IF token = ""
       THEN /\ lastEvent' = Ran("other")          \* openModal('github-modal')
            /\ UNCHANGED svPc
       ELSE IF IsBlank(editor)
       THEN /\ lastEvent' = Did("other", <<"Cannot save empty note">>)
            /\ UNCHANGED svPc
       ELSE /\ svPc' = "getFile"
            /\ lastEvent' = Did("other", <<"Saving to GitHub...">>)
    /\ UNCHANGED <<online, indicator, db, startupTimer, token, editor,
                   queueStore, syncQueue, passVars, txns>>
    /\ UNCHANGED noteVars
    /\ UNCHANGED extVars

\* GitHubService.getFile returned or threw (createOrUpdateFile ignores which)
SaveGetFileDone ==
    /\ svPc = "getFile"
    /\ svPc' = "put"
    /\ lastEvent' = Ran("other")
    /\ UNCHANGED <<online, indicator, db, startupTimer, token, editor,
                   queueStore, syncQueue, passVars, txns>>
    /\ UNCHANGED noteVars
    /\ UNCHANGED extVars

\* the PUT of createOrUpdateFile returned or threw; saveToGitHub's catch
SavePutDone ==
    /\ svPc = "put"
    /\ \E o \in FetchOutcomes(online) :
         IF o.ok
         THEN /\ lastEvent' = Did("saved", <<"Saved to GitHub successfully">>)
              /\ svPc' = "idle"
              /\ UNCHANGED <<txns>>
         ELSE IF ~ShouldEnqueue(online)
         THEN /\ lastEvent' = Did("saveFailedOnline", <<"GitHub save failed">>)
              /\ svPc' = "idle"
              /\ UNCHANGED <<txns>>
         ELSE addToSyncQueue(EnqueuedJob(editor))
    /\ UNCHANGED <<online, indicator, db, startupTimer, token, editor,
                   queueStore, syncQueue, passVars>>
    /\ UNCHANGED noteVars
    /\ UNCHANGED extVars

\* A publish of text builds its content field; GitHub stores the bytes the
\* field is the base64 of.  A content field that cannot be built throws
\* before the request is made.
PublishText(text, via) ==
    /\ codec.pc = "idle"
    /\ LET content == ContentField(via, text)
       IN  codec' = [pc |-> IF content.ok THEN "published" ELSE "failed",
                     text |-> text, via |-> via,
                     file |-> IF content.ok THEN atob(content.value) ELSE <<>>,
                     result |-> content]
    /\ lastEvent' = Ran("other")
    /\ UNCHANGED <<appVars, pub, cred, sw>>

\* GitHubService.getFile of part_000 on the published path: GitHub answers
\* with the base64 of the file's bytes, getFile decodes it with base64ToUtf8.
FetchText ==
    /\ codec.pc = "published"
    /\ codec' = [codec EXCEPT !.pc = "fetched",
                              !.result = base64ToUtf8(B64Encode(codec.file))]
    /\ lastEvent' = Ran("other")
    /\ UNCHANGED <<appVars, pub, cred, sw>>

\* the next text
ForgetTransfer ==
    /\ codec.pc \in {"fetched", "failed"}
    /\ codec' = NoTransfer
    /\ lastEvent' = Ran("other")
    /\ UNCHANGED <<appVars, pub, cred, sw>>

\* createOrUpdateFile (from saveToGitHub) or commitToGitHub (from the drain)
\* is called and sends its GET of the path.
StartPublish(via) ==
    /\ pub.pc = "idle"
    /\ pub' = [NoPublish(pub.remote) EXCEPT !.pc = "get", !.via = via]
    /\ lastEvent' = Ran("other")
    /\ UNCHANGED <<appVars, codec, cred, sw>>

\* The GET is answered (or fetch rejects); seen is what was at the path then.
GetDone ==
    /\ pub.pc = "get"
    /\ \E reply \in GetReplies(pub.remote) :
         LET after == AfterGet(pub.via, reply)
         IN  pub' = [pub EXCEPT !.pc = IF after.writes THEN "put" ELSE "done",
                                !.seen = pub.remote,
                                !.got = reply.kind,
                                !.reported = after.reported,
                                !.sha = after.sha,
                                !.error = IF after.writes THEN Undefined
                                          ELSE after.reported]
    /\ lastEvent' = Ran("other")
    /\ UNCHANGED <<appVars, codec, cred, sw>>

\* The PUT, sent with the sha the publish holds, is answered (or rejects):
\* both publishers throw on a response that is not ok.
PutDone ==
    /\ pub.pc = "put"
    /\ \E reply \in PutReplies(pub.remote, pub.sha) :
         pub' = [pub EXCEPT !.pc = "done",
                            !.put = reply.kind,
                            !.error = reply.message,
                            !.remote = IF reply.ok THEN OwnSha ELSE @]
    /\ lastEvent' = Ran("other")
    /\ UNCHANGED <<appVars, codec, cred, sw>>

\* the next publish
ForgetPublish ==
    /\ pub.pc = "done"
    /\ pub' = NoPublish(pub.remote)
    /\ lastEvent' = Ran("other")
    /\ UNCHANGED <<appVars, codec, cred, sw>>

\* Another writer creates, replaces or deletes the object at the path.
RemoteChange(sha) ==
    /\ sha \in {NoSha} \cup Shas
    /\ sha # pub.remote
    /\ pub' = [pub EXCEPT !.remote = sha]
    /\ UNCHANGED <<appVars, codec, cred, sw, lastEvent>>

\* ---------------------------------------------------------------------
\* The service worker's events.  The worker runs beside the page: its steps
\* are not tasks of the GitWrite instance.

\* 'install': the listener asks for caches.open(STATIC_CACHE) and calls
\* self.skipWaiting(), which sets the worker's skip-waiting flag.
InstallEvent ==
    /\ sw.phase = "parsed"
    /\ sw' = [sw EXCEPT !.phase = "installing", !.skipWaiting = TRUE]
    /\ UNCHANGED <<appVars, codec, pub, cred, lastEvent>>

\* 'install': cache.addAll(STATIC_FILES) settles; it stores all the files
\* or, when one of them cannot be fetched, none; a rejection of waitUntil's
\* promise discards the worker.
Install ==
    /\ sw.phase = "installing"
    /\ \E reply \in NetworkReplies :
          LET opened == Opened(sw.storage, STATIC_CACHE)
              all == [url \in {Url(Origin, p) : p \in STATIC_FILES}
                         |-> reply.value]
          IN  IF reply.ok /\ IsOk(reply.value)
              THEN sw' = [sw EXCEPT
                            !.phase = "installed",
                            !.storage = [i \in 1..Len(opened) |->
                                IF opened[i].name = STATIC_CACHE
                                THEN [opened[i] EXCEPT !.entries = all @@ @]
                                ELSE opened[i]]]
              ELSE sw' = [sw EXCEPT !.phase = "redundant",
                                    !.storage = opened]
    /\ UNCHANGED <<appVars, codec, pub, cred, lastEvent>>

\* 'activate' (with the skip-waiting flag set, as soon as the install has
\* succeeded): the listener asks for caches.keys() and calls
\* self.clients.claim(), both inside one Promise.all.
ActivateEvent ==
    /\ sw.phase = "installed"
    /\ sw.skipWaiting
    /\ sw' = [sw EXCEPT !.phase = "activating"]
    /\ UNCHANGED <<appVars, codec, pub, cred, lastEvent>>

\* clients.claim() resolves: the pages that are open are controlled by this
\* worker.  The worker is activated when waitUntil's promise resolves.
ClientsClaimed ==
    /\ sw.phase = "activating"
    /\ ~sw.claimed
    /\ sw' = [sw EXCEPT
                !.claimed = TRUE,
                !.phase = IF sw.cleaned THEN "activated" ELSE @]
    /\ UNCHANGED <<appVars, codec, pub, cred, lastEvent>>

\* 'activate': caches.keys() has resolved and every cache but STATIC_CACHE
\* and CACHE_NAME is deleted.
Activate ==
    /\ sw.phase = "activating"
    /\ ~sw.cleaned
    /\ sw' = [sw EXCEPT
                !.cleaned = TRUE,
                !.phase = IF sw.claimed THEN "activated" ELSE @,
                !.storage = SelectSeq(sw.storage,
                    LAMBDA c : c.name \in {STATIC_CACHE, CACHE_NAME})]
    /\ UNCHANGED <<appVars, codec, pub, cred, lastEvent>>

\* The request is answered: respondWith's promise resolves.
Responded(request, fetched, response) ==
    [pc |-> "responded", request |-> request, fetched |-> fetched,
     response |-> response]

Waiting(pc, request, fetched) ==
    [pc |-> pc, request |-> request, fetched |-> fetched]

\* 'fetch': requests that are not GET and requests to api.github.com are
\* left to the browser; for the others handleFetch starts, with
\* caches.match (cacheFirst) or fetch (networkFirst) as its first call.
FetchEvent(request) ==
    /\ sw.phase = "activated"
    /\ sw.req.pc \in {"idle", "passed", "responded"}
    /\ sw' = [sw EXCEPT !.req =
                IF request.method # "GET" \/ request.url.hostname = ApiHost
                THEN [pc |-> "passed", request |-> request]
                ELSE IF isStaticFile(request.url.pathname)
                THEN Waiting("cacheFirst", request, FALSE)
                ELSE Waiting("networkFirst", request, TRUE)]
    /\ UNCHANGED <<appVars, codec, pub, cred, lastEvent>>

\* cacheFirst: caches.match(request) has resolved
CacheFirstMatched ==
    /\ sw.req.pc = "cacheFirst"
    /\ LET cached == Matches(sw.storage, sw.req.request.url)
       IN  sw' = [sw EXCEPT !.req =
                    IF cached # << >>
                    THEN Responded(sw.req.request, FALSE, cached[1])
                    ELSE Waiting("cacheFirstFetch", sw.req.request, TRUE)]
    /\ UNCHANGED <<appVars, codec, pub, cred, lastEvent>>

\* cacheFirst and networkFirst: fetch(request) has settled.  An ok response
\* goes to cache.put, which nobody awaits, and is returned; another
\* response is returned as it is; a rejection leaves cacheFirst for
\* handleFetch's catch and takes networkFirst to its own.  (An ok response
\* comes while fewer than MaxPuts puts are under way.)
NetworkAnswered(reply) ==
    /\ sw.req.pc \in {"cacheFirstFetch", "networkFirst"}
    /\ reply.ok /\ IsOk(reply.value) => Cardinality(sw.puts) < MaxPuts
    /\ LET request == sw.req.request
           name == IF sw.req.pc = "cacheFirstFetch" THEN STATIC_CACHE
                   ELSE CACHE_NAME
       IN  IF reply.ok
           THEN sw' = [sw EXCEPT
                  !.req = Responded(request, TRUE, reply.value),
                  !.storage = IF IsOk(reply.value) THEN Opened(@, name)
                              ELSE @,
                  !.puts = IF IsOk(reply.value)
                           THEN @ \cup {[name |-> name, url |-> request.url,
                                         response |-> reply.value]}
                           ELSE @]
           ELSE sw' = [sw EXCEPT !.req =
                  Waiting(IF sw.req.pc = "cacheFirstFetch" THEN "fallback"
                          ELSE "networkFirstCatch", request, TRUE)]
    /\ UNCHANGED <<appVars, codec, pub, cred, lastEvent>>

\* networkFirst's catch: caches.match(request) has resolved
NetworkFirstMatched ==
    /\ sw.req.pc = "networkFirstCatch"
    /\ LET cached == Matches(sw.storage, sw.req.request.url)
       IN  sw' = [sw EXCEPT !.req =
                    IF cached # << >>
                    THEN Responded(sw.req.request, TRUE, cached[1])
                    ELSE Waiting("fallback", sw.req.request, TRUE)]
    /\ UNCHANGED <<appVars, codec, pub, cred, lastEvent>>

\* (a catch that does not look into the caches for the request)
FallbackMatched_SkipsCache ==
    /\ sw.req.pc = "fallback"
    /\ sw' = [sw EXCEPT !.req =
                 IF sw.req.request.mode = "navigate"
                 THEN Waiting("offline", sw.req.request, TRUE)
                 ELSE Responded(sw.req.request, TRUE, Unavailable)]
    /\ UNCHANGED <<appVars, codec, pub, cred, lastEvent>>

\* handleFetch's catch: caches.match(request) has resolved
FallbackMatched ==
    /\ sw.req.pc = "fallback"
    /\ LET cached == Matches(sw.storage, sw.req.request.url)
       IN  sw' = [sw EXCEPT !.req =
                    IF cached # << >>
                    THEN Responded(sw.req.request, TRUE, cached[1])
                    ELSE IF sw.req.request.mode = "navigate"
                    THEN Waiting("offline", sw.req.request, TRUE)
                    ELSE Responded(sw.req.request, TRUE, Unavailable)]
    /\ UNCHANGED <<appVars, codec, pub, cred, lastEvent>>

\* handleFetch's catch: caches.match('/index.html') has resolved
OfflineMatched ==
    /\ sw.req.pc = "offline"
    /\ LET offline == Matches(sw.storage, Url(Origin, IndexHtml))
       IN  sw' = [sw EXCEPT !.req =
                    Responded(sw.req.request, TRUE,
                              IF offline # << >> THEN offline[1]
                              ELSE Unavailable)]
    /\ UNCHANGED <<appVars, codec, pub, cred, lastEvent>>

\* a cache.put completes
CachePutDone(put) ==
    /\ put \in sw.puts
    /\ sw' = [sw EXCEPT
                !.puts = @ \ {put},
                !.storage = Stored(@, put.name, put.url, put.response)]
    /\ UNCHANGED <<appVars, codec, pub, cred, lastEvent>>

Next ==
    \/ OpenSuccess
    \/ OpenError
    \/ handleOnline
    \/ handleOffline
    \/ syncNow
    \/ StartupDrain
    \/ \E p \in Passes : CommitDone(p)
    \/ IdbStep
    \/ clearCompletedJobs
    \/ forgetToken
    \/ \E remember \in BOOLEAN : saveGitHubSettings(remember)
    \/ Restart
    \/ \E text \in Texts : handleEditorInput(text)
    \/ saveToGitHub
    \/ SaveGetFileDone
    \/ SavePutDone
    \/ autosaveNote
    \/ newNote
    \/ \E noteId \in NoteIds : loadNote(noteId)
    \/ \E noteId \in NoteIds : deleteNote(noteId)
    \/ \E text \in Strings, via \in Publishers : PublishText(text, via)
    \/ FetchText
    \/ ForgetTransfer
    \/ \E via \in Services : StartPublish(via)
    \/ GetDone
    \/ PutDone
    \/ ForgetPublish
    \/ \E sha \in {NoSha} \cup Shas : RemoteChange(sha)
    \/ InstallEvent
    \/ Install
    \/ ActivateEvent
    \/ ClientsClaimed
    \/ Activate
    \/ \E request \in Requests : FetchEvent(request)
    \/ CacheFirstMatched
    \/ \E reply \in NetworkReplies : NetworkAnswered(reply)
    \/ NetworkFirstMatched
    \/ FallbackMatched
    \/ OfflineMatched
    \/ \E put \in sw.puts : CachePutDone(put)

Spec == Init /\ [][Next]_vars

\* Publishing: the queue engine and the interactive save to GitHub, on an
\* instance whose notes nobody autosaves, opens or deletes and whose user
\* writes one draft and leaves #remember-token unticked.
SaveNext ==
    \/ OpenSuccess
    \/ OpenError
    \/ handleOnline
    \/ handleOffline
    \/ syncNow
    \/ StartupDrain
    \/ \E p \in Passes : CommitDone(p)
    \/ IdbStep
    \/ clearCompletedJobs
    \/ forgetToken
    \/ saveGitHubSettings(FALSE)
    \/ \E text \in FirstDrafts : handleEditorInput(text)
    \/ saveToGitHub
    \/ SaveGetFileDone
    \/ SavePutDone

SaveSpec == Init /\ [][SaveNext]_vars

\* Notes and the queue: the queue engine and the note lifecycle, on an
\* instance on which nobody saves to GitHub and whose user writes one draft.
NoteNext ==
    \/ OpenSuccess
    \/ OpenError
    \/ handleOnline
    \/ handleOffline
    \/ syncNow
    \/ StartupDrain
    \/ \E p \in Passes : CommitDone(p)
    \/ IdbStep
    \/ clearCompletedJobs
    \/ forgetToken
    \/ \E text \in FirstDrafts : handleEditorInput(text)
    \/ autosaveNote
    \/ newNote
    \/ \E noteId \in NoteIds : loadNote(noteId)
    \/ \E noteId \in NoteIds : deleteNote(noteId)

NoteSpec == Init /\ [][NoteNext]_vars

\* The notes alone: the store opening and the note lifecycle with every text
\* of the editor, on an instance that is never told to drain, purge or save
\* to GitHub.
EditNext ==
    \/ OpenSuccess
    \/ OpenError
    \/ IdbStep
    \/ \E text \in Texts : handleEditorInput(text)
    \/ autosaveNote
    \/ newNote
    \/ \E noteId \in NoteIds : loadNote(noteId)
    \/ \E noteId \in NoteIds : deleteNote(noteId)

EditSpec == Init /\ [][EditNext]_vars

\* The way of a text to the repository and back, on an instance nobody uses
\* otherwise.
CodecNext ==
    \/ \E text \in Strings, via \in Publishers : PublishText(text, via)
    \/ FetchText
    \/ ForgetTransfer

CodecSpec == Init /\ [][CodecNext]_vars

\* Publishing to one path of a repository that others write to as well, on
\* an instance nobody uses otherwise.
PubNext ==
    \/ \E via \in Services : StartPublish(via)
    \/ GetDone
    \/ PutDone
    \/ ForgetPublish
    \/ \E sha \in {NoSha} \cup Shas : RemoteChange(sha)

PubSpec == Init /\ [][PubNext]_vars

\* The settings and the sessions: saving the GitHub settings, forgetting the
\* token and opening the page again, on an instance nobody uses otherwise.
CredNext ==
    \/ OpenSuccess
    \/ OpenError
    \/ IdbStep
    \/ \E remember \in BOOLEAN : saveGitHubSettings(remember)
    \/ forgetToken
    \/ Restart

CredSpec == Init /\ [][CredNext]_vars

\* The service worker from its installation on, beside an instance that is
\* online, has nothing queued and is not used.
SwInit == Init /\ online /\ DOMAIN queueStore = {}

SwNext ==
    \/ InstallEvent
    \/ Install
    \/ ActivateEvent
    \/ ClientsClaimed
    \/ Activate
    \/ \E request \in Requests : FetchEvent(request)
    \/ CacheFirstMatched
    \/ \E reply \in NetworkReplies : NetworkAnswered(reply)
    \/ NetworkFirstMatched
    \/ FallbackMatched
    \/ OfflineMatched
    \/ \E put \in sw.puts : CachePutDone(put)

SwSpec == SwInit /\ [][SwNext]_vars

\* The queue engine alone: the store opening, connectivity, the drain, the
\* purge and the full clear, from an instance on which nobody saves to GitHub.
SyncNext ==
    \/ OpenSuccess
    \/ OpenError
    \/ handleOnline
    \/ handleOffline
    \/ syncNow
    \/ StartupDrain
    \/ \E p \in Passes : CommitDone(p)
    \/ IdbStep
    \/ clearCompletedJobs
    \/ forgetToken

SyncSpec == Init /\ [][SyncNext]_vars

-----------------------------------------------------------------------------
\* Properties

QueueSize == Cardinality(DOMAIN queueStore)
DrainTriggers == {"handleOnline", "syncNow", "startupDrain"}
Ids(q) == [i \in 1..Len(q) |-> q[i].id]
AllSucceeded(log) == \A i \in 1..Len(log) : log[i].success

\* C1: with the store open, the step that ends an interactive publish attempt
\* which failed while the device was offline leaves exactly one more job in
\* the queue store than there was before it.
C1_OfflineAttemptAddsOneJob ==
    [][ (db = "open" /\ svPc # "idle" /\ svPc' = "idle"
            /\ lastEvent'.task \in {"saveFailedOffline", "queued"})
        => QueueSize' = QueueSize + 1 ]_vars

\* C2: the job the enqueue path hands to addToSyncQueue has status pending,
\* createdAt = the enqueue instant, and the path, commit message, destination
\* and credential that commitToGitHub reads.
C2_EnqueuedJobIsPendingSnapshot ==
    lastEvent.task = "saveFailedOffline"
    => /\ lastEvent.job.status = "pending"
       /\ lastEvent.job.createdAt = "now"
       /\ lastEvent.job.path # Undefined
       /\ lastEvent.job.commitMessage # Undefined
       /\ lastEvent.job.repo # Undefined
       /\ lastEvent.job.token # Undefined

\* C3: a drain pass whose every publish succeeded ends having published its
\* selected jobs in the order of selection, with every selected job completed
\* in the store (unless the purge has already removed it) and no job of the
\* store pending.
C3_DrainOfSuccessesCompletesAll ==
    [][ \A p \in Passes :
          (passPc[p] = "update" /\ passPc'[p] = "idle"
              /\ lastEvent'.task = "updateEnd" /\ AllSucceeded(passLog[p]))
          => /\ Ids(passLog[p]) = Ids(pendingJobs[p])
             /\ \A i \in 1..Len(pendingJobs[p]) :
                  LET k == pendingJobs[p][i].id
                  IN  k \in DOMAIN queueStore'
                      => queueStore'[k].status = "completed"
             /\ \A k \in DOMAIN queueStore' : queueStore'[k].status # "pending"
      ]_vars

\* C3's case: a pass has just ended, and the jobs it selected as pending
\* (two of them, still pending in the list not yet reloaded) are completed.
C3_Witness ==
    /\ lastEvent.task = "updateEnd"
    /\ Len(syncQueue) >= 2
    /\ \A i \in 1..Len(syncQueue) :
         /\ syncQueue[i].status = "pending"
         /\ syncQueue[i].id \in DOMAIN queueStore
         /\ queueStore[syncQueue[i].id].status = "completed"

\* C4: a publish that fails never ends the pass.  When commitToGitHub returns,
\* the pass goes on to update that job; when the update of job k finds the
\* job, a failed job k is stored as failed with the publisher's error, and the
\* pass then publishes job k+1, or ends normally after the last job.
C4_FailureDoesNotAbortBatch ==
    [][ \A p \in Passes :
          /\ (passPc[p] = "commit" /\ passPc'[p] # "commit")
             => /\ passPc'[p] = "update"
                /\ Len(passLog'[p]) = passIdx[p]
          /\ (passPc[p] = "update" /\ passPc'[p] # "update"
                 /\ pendingJobs[p][passIdx[p]].id \in DOMAIN queueStore)
             => LET k == pendingJobs[p][passIdx[p]].id
                    r == passLog[p][passIdx[p]]
                IN  /\ r.id = k
                    /\ ~r.success
                       => /\ queueStore'[k].status = "failed"
                          /\ queueStore'[k].error = r.error
                    /\ r.success => queueStore'[k].status = "completed"
                    /\ IF passIdx[p] < Len(pendingJobs[p])
                       THEN /\ passPc'[p] = "commit"
                            /\ passIdx'[p] = passIdx[p] + 1
                       ELSE /\ lastEvent'.task = "updateEnd"
                            /\ ~isSyncing'
      ]_vars

\* C4's case: job 1 of a pass failed with Conflict and is stored as failed
\* with that error, and the pass is publishing job 2.
C4_Witness ==
    \E p \in Passes :
        /\ passPc[p] = "commit"
        /\ passIdx[p] = 2
        /\ ~passLog[p][1].success
        /\ passLog[p][1].error = "Conflict"
        /\ passLog[p][1].id \in DOMAIN queueStore
        /\ queueStore[passLog[p][1].id].status = "failed"
        /\ queueStore[passLog[p][1].id].error = "Conflict"

\* C5: at most one drain pass is in progress, and a drain trigger (online
\* event, Sync Now, startup timer) that comes while a pass is in progress
\* changes no job, no pass and requests nothing.
C5_OneDrainAtATime ==
    /\ [](Cardinality(ActivePasses) <= 1)
    /\ [][ (ActivePasses # {} /\ lastEvent'.task \in DrainTriggers)
           => UNCHANGED <<queueStore, syncQueue, txns, passVars>> ]_vars

\* C5's case: Sync Now was clicked while a pass was waiting for
\* updateQueueJob.
C5_Witness ==
    /\ lastEvent.task = "syncNow"
    /\ isSyncing
    /\ \E p \in Passes : passPc[p] = "update"

\* C6: whenever no drain pass is in progress the drain guard is clear, that
\* is, every exit of a pass releases isSyncing.
C6_GuardReleasedOnEveryExit ==
    ActivePasses = {} => ~isSyncing

\* C7: at the moment isSyncing becomes false the in-memory job list equals
\* the contents of the store.
C7_ReloadedBeforeRelease ==
    [][ (isSyncing /\ ~isSyncing') => syncQueue' = GetAll(queueStore') ]_vars

\* C8: a stored job changes status only from pending to completed or from
\* pending to failed; a completed job keeps its status.
C8_CompletedIsTerminal ==
    [][ \A k \in DOMAIN queueStore :
          (k \in DOMAIN queueStore' /\ queueStore'[k].status # queueStore[k].status)
          => /\ queueStore[k].status = "pending"
             /\ queueStore'[k].status \in {"completed", "failed"} ]_vars

C10_PurgeDeletesOnlyCompleted ==
    [][ lastEvent'.task = "purge"
        => \A k \in DOMAIN queueStore :
             IF queueStore[k].status = "completed"
             THEN k \notin DOMAIN queueStore'
             ELSE /\ k \in DOMAIN queueStore'
                  /\ queueStore'[k] = queueStore[k] ]_vars

\* C10's case: the purge ran during a drain pass, deleted a completed job
\* (the list in memory still shows it) and left a job that is not completed.
C10_Witness ==
    /\ lastEvent.task = "purge"
    /\ ActivePasses # {}
    /\ \E i \in 1..Len(syncQueue) :
         /\ syncQueue[i].status = "completed"
         /\ syncQueue[i].id \notin DOMAIN queueStore
    /\ \E k \in DOMAIN queueStore : queueStore[k].status # "completed"

\* The fields of a job other than status and error.
Payload(job) ==
    [id |-> job.id, type |-> job.type, content |-> job.content,
     timestamp |-> job.timestamp, createdAt |-> job.createdAt,
     path |-> job.path, commitMessage |-> job.commitMessage,
     repo |-> job.repo, token |-> job.token, noteId |-> job.noteId]

\* C11: no step changes the payload of a stored job (every field other than
\* status and error), and the jobs of the in-memory list carry the payload
\* the store has for them.
C11_PayloadNeverChanges ==
    [][ /\ \A k \in DOMAIN queueStore :
             k \in DOMAIN queueStore'
             => Payload(queueStore'[k]) = Payload(queueStore[k])
        /\ \A i \in 1..Len(syncQueue') :
             syncQueue'[i].id \in DOMAIN queueStore'
             => Payload(syncQueue'[i]) = Payload(queueStore'[syncQueue'[i].id])
      ]_vars

\* C11's case: a pass has just stored a job as failed, after the note was
\* autosaved and the editor emptied again; the job still has its content.
C11_Witness ==
    /\ lastEvent.task \in {"updateNext", "updateEnd"}
    /\ 1 \in DOMAIN notesStore
    /\ editor = ""
    /\ \E k \in DOMAIN queueStore :
         /\ queueStore[k].status = "failed"
         /\ queueStore[k].error = "Conflict"
         /\ queueStore[k].content = "draft"

\* C12: with the store open, when a save of content C made while offline has
\* ended, the queue store holds a new job that is pending and has content C
\* (the job the drain is to publish once connectivity is back).
C12_OfflineSaveIsQueuedPending ==
    [][ (db = "open" /\ svPc # "idle" /\ svPc' = "idle"
            /\ lastEvent'.task \in {"saveFailedOffline", "queued"})
        => \E k \in (DOMAIN queueStore') \ (DOMAIN queueStore) :
             /\ queueStore'[k].status = "pending"
             /\ queueStore'[k].content = editor ]_vars

\* C13: a save to GitHub that fails while the device is online ends with the
\* error reported and nothing else: the queue store, the in-memory list and
\* the requested transactions are unchanged; addToSyncQueue is called only
\* for a save that failed while offline.
C13_OnlineFailureIsNotQueued ==
    [][ /\ (svPc = "put" /\ svPc' # "put" /\ online)
           => lastEvent'.task \in {"saved", "saveFailedOnline"}
        /\ lastEvent'.task = "saveFailedOnline"
           => /\ svPc = "put" /\ svPc' = "idle"
              /\ UNCHANGED <<queueStore, syncQueue, txns>>
        /\ lastEvent'.task = "saveFailedOffline" => ~online
      ]_vars

\* C13's case: a save of "draft" has just failed online, with the store open
\* and a job of an earlier session pending in it.
C13_Witness ==
    /\ lastEvent.task = "saveFailedOnline"
    /\ online
    /\ db = "open"
    /\ editor = "draft"
    /\ \E k \in DOMAIN queueStore : queueStore[k].status = "pending"

\* C14: a drain trigger that runs while the device is offline (the startup
\* timer's processSyncQueue, or Sync Now) starts no pass and publishes
\* nothing, changes no job and leaves isSyncing as it was.
C14_OfflineDrainIsNoOp ==
    [][ (~online' /\ lastEvent'.task \in DrainTriggers)
        => UNCHANGED <<queueStore, syncQueue, txns, passVars>> ]_vars

\* C14's case: the startup timer called processSyncQueue while offline, with
\* a pending job in the loaded list and no pass in progress.
C14_Witness ==
    /\ lastEvent.task = "startupDrain"
    /\ ~online
    /\ ~isSyncing
    /\ \E i \in 1..Len(syncQueue) : syncQueue[i].status = "pending"

\* C15: the online event sets the indicator to online and calls the drain:
\* a pass starts over the pending jobs of the list (and the indicator then
\* shows syncing) unless a drain is in progress or the list has no pending
\* job.  The offline event sets the indicator to offline and does nothing
\* else: no pass starts, no job changes, nothing is requested.
C15_ConnectivityTransitions ==
    [][ /\ lastEvent'.task = "handleOnline"
           => /\ ~online /\ online'
              /\ UNCHANGED <<queueStore, syncQueue, txns>>
              /\ IF isSyncing \/ \A i \in 1..Len(syncQueue) :
                                   syncQueue[i].status # "pending"
                 THEN /\ indicator' = "online"
                      /\ UNCHANGED passVars
                 ELSE /\ indicator' = "syncing"
                      /\ isSyncing'
                      /\ \E p \in Passes :
                           /\ passPc[p] = "idle" /\ passPc'[p] = "commit"
                           /\ passIdx'[p] = 1
                           /\ Len(pendingJobs'[p]) > 0
        /\ (online /\ ~online')
           => /\ indicator' = "offline"
              /\ UNCHANGED <<queueStore, syncQueue, txns, passVars>>
      ]_vars

\* C15's case: the online event has just started a pass.
C15_Witness ==
    /\ lastEvent.task = "handleOnline"
    /\ online
    /\ indicator = "syncing"
    /\ \E p \in Passes : passPc[p] = "commit" /\ passIdx[p] = 1

\* C16: when the startup timer fires while the device is online and no drain
\* is in progress, the pass it starts takes every job that is pending in the
\* store, whether or not the store has been opened and the list loaded by
\* then.
C16_StartupDrainTakesStoredPendingJobs ==
    [][ (lastEvent'.task = "startupDrain" /\ online /\ ~isSyncing
            /\ db # "failed")
        => \A k \in DOMAIN queueStore :
             queueStore[k].status = "pending"
             => \E p \in Passes :
                  /\ passPc'[p] = "commit"
                  /\ \E j \in 1..Len(pendingJobs'[p]) :
                       pendingJobs'[p][j].id = k ]_vars

\* C17: at most one publish of the drain is in flight, and a pass starts the
\* publish of its job i+1 only in the step in which the status of job i
\* (completed or failed, as its publish ended) has been written to the store.
C17_PublishesAreSequential ==
    /\ [](Cardinality({p \in Passes : passPc[p] = "commit"}) <= 1)
    /\ [][ \A p \in Passes :
             (passPc'[p] = "commit" /\ passIdx'[p] > 1 /\ passIdx'[p] # passIdx[p])
             => /\ passPc[p] = "update"
                /\ passIdx'[p] = passIdx[p] + 1
                /\ LET k == pendingJobs[p][passIdx[p]].id
                   IN  /\ k \in DOMAIN queueStore'
                       /\ queueStore'[k].status =
                            IF passLog[p][passIdx[p]].success
                            THEN "completed" ELSE "failed"
         ]_vars

\* C17's case: a pass is publishing its second job, and its first job, whose
\* publish succeeded, is completed in the store.
C17_Witness ==
    \E p \in Passes :
        /\ passPc[p] = "commit"
        /\ passIdx[p] = 2
        /\ passLog[p][1].success
        /\ queueStore[passLog[p][1].id].status = "completed"
        /\ queueStore[pendingJobs[p][2].id].status = "pending"

\* C18: no step of a drain pass (its start, the return of a publish, the
\* update of a job, its end) changes the 'notes' store; and the update of a
\* job whose publish failed stores the job as failed with the publisher's
\* error.
C18_DrainLeavesNotesAlone ==
    [][ /\ (passVars' # passVars
               \/ lastEvent'.task \in {"updateNext", "updateEnd", "updateRejected"})
           => UNCHANGED notesStore
        /\ \A p \in Passes :
             (passPc[p] = "update" /\ passPc'[p] # "update"
                 /\ ~passLog[p][passIdx[p]].success
                 /\ passLog[p][passIdx[p]].id \in DOMAIN queueStore)
             => LET r == passLog[p][passIdx[p]]
                IN  /\ queueStore'[r.id].status = "failed"
                    /\ queueStore'[r.id].error = r.error
      ]_vars

\* C18's case: a pass has just ended having stored a job as failed with
\* Conflict, and the autosaved note is in the 'notes' store with its content.
C18_Witness ==
    /\ lastEvent.task = "updateEnd"
    /\ currentNote = 1
    /\ 1 \in DOMAIN notesStore
    /\ notesStore[1] = "draft"
    /\ editor = "draft"
    /\ \E k \in DOMAIN queueStore :
         /\ queueStore[k].status = "failed"
         /\ queueStore[k].error = "Conflict"

\* C19: deleting a note changes no queue job, neither in the store nor in the
\* in-memory list, requests nothing on the queue and disturbs no pass; and a
\* pass that starts selects every job the list shows as pending, whether or
\* not the note the job refers to is still in the 'notes' store.
C19_DeleteNoteLeavesQueueAlone ==
    [][ /\ lastEvent'.task = "deleteNote"
           => UNCHANGED <<queueStore, syncQueue, txns, passVars>>
        /\ \A p \in Passes :
             (passPc[p] = "idle" /\ passPc'[p] = "commit")
             => \A i \in 1..Len(syncQueue) :
                  (syncQueue[i].status = "pending"
                      /\ syncQueue[i].noteId \notin DOMAIN notesStore)
                  => \E j \in 1..Len(pendingJobs'[p]) :
                       pendingJobs'[p][j] = syncQueue[i]
      ]_vars

\* C19's case: the note was deleted while a pass was publishing a job that
\* refers to it; the job is still in the store, pending.
C19_Witness ==
    /\ lastEvent.task = "deleteNote"
    /\ \E p \in Passes :
         /\ passPc[p] = "commit"
         /\ LET job == pendingJobs[p][passIdx[p]]
            IN  /\ job.noteId \notin DOMAIN notesStore
                /\ job.id \in DOMAIN queueStore
                /\ queueStore[job.id].status = "pending"

AutosaveTasks == {"autosaveNote", "newNote"}

\* C21: an autosave of a text that is not blank, with the store open, writes
\* one record: under the id of the current note if it has one, whether or not
\* the store still holds it, and under an id no record has otherwise; the
\* record holds the editor text of that moment, whatever it held before, and
\* every other record is as it was.  The current note keeps its id over the
\* autosaves of the timer.
C21_AutosaveOverwritesInPlace ==
    [][ (lastEvent'.task \in AutosaveTasks /\ ~IsBlank(editor) /\ db = "open")
        => \E id \in NoteIds :
             /\ currentNote # Null => id = currentNote
             /\ currentNote = Null => id \notin DOMAIN notesStore
             /\ DOMAIN notesStore' = (DOMAIN notesStore) \cup {id}
             /\ notesStore'[id] = editor
             /\ \A k \in (DOMAIN notesStore) \ {id} : notesStore'[k] = notesStore[k]
             /\ lastEvent'.task = "autosaveNote" => currentNote' = id
      ]_vars

\* C21's case: the timer's autosave has just written the second text of the
\* editor over the record of the current note.
C21_Witness ==
    /\ lastEvent.task = "autosaveNote"
    /\ currentNote \in DOMAIN notesStore
    /\ editor = "redraft"
    /\ notesStore[currentNote] = "redraft"

\* C22: a record enters the 'notes' store only in a task that runs
\* autosaveNote on an editor text that is not blank, and holds that text; a
\* record leaves the store only in the step of deleteNote, and it is the
\* record that was to be deleted.
C22_NotesComeByAutosaveGoByDelete ==
    [][ /\ \A k \in (DOMAIN notesStore') \ (DOMAIN notesStore) :
             /\ lastEvent'.task \in AutosaveTasks
             /\ editor \notin {"", " "}
             /\ notesStore'[k] = editor
        /\ \A k \in (DOMAIN notesStore) \ (DOMAIN notesStore') :
             lastEvent'.task = "deleteNote"
      ]_vars

\* C22's case: a stored note outlived a full clear of the queue (forgetToken)
\* and the click on #new-note that followed.
C22_Witness ==
    /\ lastEvent.task = "newNote"
    /\ DOMAIN notesStore # {}
    /\ DOMAIN queueStore = {}
    /\ token = ""
    /\ currentNote = Null
    /\ Len(syncQueue) > 0

\* C23: a well-formed text that was published comes back from the repository
\* as it was, whoever built the content field of the request; no publish
\* fails on the text it is given.
C23_PublishedTextComesBack ==
    (IsWellFormed(codec.text) /\ codec.pc \in {"fetched", "failed"})
    => /\ codec.pc = "fetched"
       /\ codec.result.ok
       /\ codec.result.value = codec.text

\* Through utf8ToBase64 every well-formed text comes back as it was, and
\* base64ToUtf8 is the inverse of utf8ToBase64 where utf8ToBase64 is defined.
Utf8PublishRoundTrips ==
    /\ (codec.via # "services/github.js" /\ IsWellFormed(codec.text)
        /\ codec.pc \in {"fetched", "failed"})
       => /\ codec.pc = "fetched"
          /\ codec.result.ok
          /\ codec.result.value = codec.text
    /\ \A str \in Strings :
         utf8ToBase64(str).ok
         => base64ToUtf8(utf8ToBase64(str).value) = Ok(str)

\* A text with a character of three UTF-8 bytes went through utf8ToBase64 to
\* the repository and came back.
Utf8PublishWitness ==
    /\ codec.pc = "fetched"
    /\ codec.via = "commitToGitHub"
    /\ codec.text = <<99, 233, 9749>>
    /\ codec.result = Ok(<<99, 233, 9749>>)
    /\ codec.file = <<99, 195, 169, 226, 152, 149>>

\* C24: the PUT of a publish comes after its GET of the path and carries a
\* sha exactly when there was an object at the path when the GET was
\* answered, the sha of that object; a PUT that is accepted finds at the path
\* what the GET found, and one that finds something else is refused with
\* Conflict and leaves the object as it is.
C24_PutCarriesShaOfWhatExists ==
    /\ pub.pc = "put" => /\ pub.got # Undefined
                         /\ pub.sha = pub.seen
    /\ pub.put = "written" => pub.remote = OwnSha
    /\ pub.put = "conflict" => pub.error = "Conflict" /\ pub.remote # OwnSha

\* A PUT is accepted only if the object at the path is the one whose sha the
\* publish holds (none, if it holds none); a refused PUT changes nothing.
NoBlindOverwrite ==
    [][ (pub.pc = "put" /\ pub'.pc = "done")
        => IF pub'.put = "written"
           THEN pub.remote = pub.sha /\ pub'.remote = OwnSha
           ELSE pub'.remote = pub.remote /\ pub'.error # Undefined
      ]_vars

\* The object was replaced by another writer between the GET and the PUT of a
\* publish, and the PUT was refused.
NoBlindOverwriteWitness ==
    /\ pub.pc = "done"
    /\ pub.got = "found"
    /\ pub.put = "conflict"
    /\ pub.sha \in Shas
    /\ pub.remote \in Shas \ {pub.sha}

\* C25: getFile reports 'File not found' only when there is no object at the
\* path, and a publish goes on to a PUT without a sha only after the GET was
\* answered with 404.
C25_OnlyNotFoundMeansAbsent ==
    /\ pub.reported = "File not found" => pub.got = "notFound"
    /\ (pub.pc = "put" /\ pub.sha = NoSha) => pub.got = "notFound"

\* The tasks that call an operation on the stores that has no test of
\* this.db: autosave, enqueue, purge and forgetToken.
PersistenceTasks ==
    {"autosaveNote", "newNote", "saveFailedOffline", "clearCompletedJobs",
     "forgetToken"}

\* C26: while the store is not open, no task that autosaves, enqueues, purges
\* or forgets the token ends in an exception or a rejection nobody handles.
C26_StoreFailuresAreHandled ==
    (db # "open" /\ lastEvent.task \in PersistenceTasks) => ~lastEvent.uncaught

\* The step in which a drain pass starts, and the tasks after which the job
\* of a pass has its new status in the store.
DrainStarts == ~isSyncing /\ isSyncing'
UpdateStoredTasks == {"updateNext", "updateEnd"}

C28_TokenPersistsIffRemembered ==
    lastEvent.task = "restart"
    => IF cred.wanted
       THEN token = "tok"
       ELSE /\ token = ""
            /\ \A k \in StorageKeys :
                 /\ cred.local[k] \in {Absent, ""}
                 /\ cred.session[k] \in {Absent, ""}

\* No storage ever holds the token, and a new session starts without one.
TokenIsNeverStored ==
    /\ \A k \in StorageKeys :
         /\ cred.local[k] \in {Absent, ""}
         /\ cred.session[k] \in {Absent, ""}
    /\ lastEvent.task = "restart" => token = ""

\* A new session after the settings were saved with #remember-token ticked.
TokenIsNeverStoredWitness ==
    /\ lastEvent.task = "restart"
    /\ cred.wanted
    /\ cred.local[SettingsKey] = ""
    /\ token = ""

\* ---------------------------------------------------------------------
\* C29: cache-first: a cached response is returned without a network fetch;
\* otherwise the network is fetched and an ok response is in the cache by
\* the time it is returned to the requester.
C29_CacheFirstStoresBeforeReturning ==
    [][sw.req.pc \in {"cacheFirst", "cacheFirstFetch"}
       /\ sw'.req.pc = "responded"
       => LET url == sw.req.request.url
          IN  IF sw.req.pc = "cacheFirst"
              THEN /\ ~sw'.req.fetched
                   /\ sw'.req.response = Matches(sw.storage, url)[1]
              ELSE IsOk(sw'.req.response)
                      => Matches(sw'.storage, url) = <<sw'.req.response>>]_vars

\* What cacheFirst does: a cached response is returned without a fetch; a
\* miss goes to the network, and an ok response is handed to cache.put of
\* STATIC_CACHE, which is still under way when the response is returned;
\* another response is returned without being handed to the cache.
CacheFirstReturnsWhilePutting ==
    [][sw.req.pc \in {"cacheFirst", "cacheFirstFetch"}
       /\ sw'.req.pc = "responded"
       => LET url == sw.req.request.url
          IN  IF sw.req.pc = "cacheFirst"
              THEN /\ ~sw'.req.fetched
                   /\ sw'.req.response = Matches(sw.storage, url)[1]
              ELSE /\ sw'.req.fetched
                   /\ IF IsOk(sw'.req.response)
                      THEN [name |-> STATIC_CACHE, url |-> url,
                            response |-> sw'.req.response] \in sw'.puts
                      ELSE sw'.puts = sw.puts]_vars

\* an ok response fetched for a static file has been returned and no cache
\* holds it
CacheFirstReturnsWhilePuttingWitness ==
    /\ sw.req.pc = "responded"
    /\ isStaticFile(sw.req.request.url.pathname)
    /\ sw.req.fetched
    /\ IsOk(sw.req.response)
    /\ Matches(sw.storage, sw.req.request.url) = << >>

\* ---------------------------------------------------------------------
\* the cache.put calls networkFirst can make
NetworkFirstPuts ==
    {[name |-> CACHE_NAME, url |-> request.url,
      response |-> Response(200, body)] :
        request \in {r \in Requests : ~isStaticFile(r.url.pathname)},
        body \in Bodies}

\* The promises the worker waits for settle, and a cache.put that was
\* started completes.
SwLiveSpec ==
    /\ SwSpec
    /\ WF_vars(CacheFirstMatched)
    /\ WF_vars(\E reply \in NetworkReplies : NetworkAnswered(reply))
    /\ WF_vars(NetworkFirstMatched)
    /\ WF_vars(FallbackMatched)
    /\ WF_vars(OfflineMatched)
    /\ \A put \in NetworkFirstPuts : WF_vars(CachePutDone(put))

Handling ==
    {"cacheFirst", "cacheFirstFetch", "networkFirst", "networkFirstCatch",
     "fallback", "offline"}

CurrentCaches == {STATIC_CACHE, CACHE_NAME}

CacheNames == {sw.storage[i].name : i \in 1..Len(sw.storage)}

StaticCachePopulated ==
    \E i \in 1..Len(sw.storage) :
        /\ sw.storage[i].name = STATIC_CACHE
        /\ \A p \in STATIC_FILES : Url(Origin, p) \in DOMAIN sw.storage[i].entries

\* C31: the worker activates only with STATIC_CACHE holding every file of
\* STATIC_FILES; the open pages are taken under control only after every
\* cache of another generation has been deleted; once the worker is
\* activated only STATIC_CACHE and CACHE_NAME exist.
C31_LifecycleInOrder ==
    /\ sw.phase \in {"activating", "activated"} => StaticCachePopulated
    /\ sw.claimed => CacheNames \subseteq CurrentCaches
    /\ sw.phase = "activated" => CacheNames \subseteq CurrentCaches

\* What the listeners do: the worker activates only after the install has
\* populated STATIC_CACHE, and it is activated (fetch events reach it) only
\* after the caches of other generations are deleted and the pages claimed.
LifecycleButForClaim ==
    /\ sw.phase \in {"activating", "activated"} => StaticCachePopulated
    /\ sw.phase = "activated"
          => sw.claimed /\ sw.cleaned /\ CacheNames \subseteq CurrentCaches
    /\ sw.req.pc # "idle" => sw.phase = "activated"

LifecycleButForClaimWitness ==
    /\ sw.phase = "activating"
    /\ sw.claimed
    /\ OldCache \in CacheNames

\* ---------------------------------------------------------------------
\* the urls the caches hold or are about to hold
CachedUrls ==
    UNION {DOMAIN sw.storage[i].entries : i \in 1..Len(sw.storage)}
        \cup {put.url : put \in sw.puts}

\* C32: only GET requests to the worker's own origin that do not go to
\* api.github.com are intercepted: any other request is left to the browser,
\* and no cache holds or is given a response of another host.
C32_OnlySameOriginGetIntercepted ==
    /\ sw.req.pc # "idle"
          => \/ sw.req.pc = "passed"
             \/ /\ sw.req.request.method = "GET"
                /\ sw.req.request.url.hostname = Origin
                /\ sw.req.request.url.hostname # ApiHost
    /\ \A url \in CachedUrls : url.hostname = Origin

\* What the fetch listener does: requests that are not GET and requests to
\* api.github.com are left to the browser and never reach a cache.
NonGetAndApiRequestsPass ==
    /\ sw.req.pc # "idle"
          => (sw.req.pc = "passed"
                <=> \/ sw.req.request.method # "GET"
                    \/ sw.req.request.url.hostname = ApiHost)
    /\ \A url \in CachedUrls : url.hostname # ApiHost

NonGetAndApiRequestsPassWitness ==
    /\ sw.req.pc = "passed"
    /\ sw.req.request.url.hostname = ApiHost

\* ---------------------------------------------------------------------
IdsOf(jobs) == [i \in 1..Len(jobs) |-> jobs[i].id]

\* C33: a drain pass that starts takes exactly the jobs that are pending in
\* the 'queue' store at that moment.
C33_PassTakesTheStoresPendingJobs ==
    [][\A p \in Passes :
          passPc[p] = "idle" /\ passPc'[p] = "commit"
          => IdsOf(pendingJobs'[p]) = IdsOf(SelectPending(GetAll(queueStore)))]_vars

\* What processSyncQueue does: the pass takes the pending jobs of
\* this.syncQueue, the copy of the store the last getAll that completed left.
PassTakesTheListsPendingJobs ==
    [][\A p \in Passes :
          passPc[p] = "idle" /\ passPc'[p] = "commit"
          => pendingJobs'[p] = SelectPending(syncQueue)]_vars

\* a pass is about to publish a job the store holds as completed
PassTakesTheListsPendingJobsWitness ==
    \E p \in Passes :
        /\ passPc[p] = "commit"
        /\ LET job == pendingJobs[p][passIdx[p]]
           IN  /\ job.id \in DOMAIN queueStore
               /\ queueStore[job.id].status = "completed"

\* ---------------------------------------------------------------------
\* the job pass p hands, or has handed, to commitToGitHub
JobOf(p) == pendingJobs[p][passIdx[p]]

StoredAsCompleted(job) ==
    job.id \in DOMAIN queueStore /\ queueStore[job.id].status = "completed"

\* C34: no step hands to commitToGitHub a job the store holds as completed,
\* and no publish succeeds for a job the store holds as completed (a second
\* successful publish of the job).
C34_CompletedJobIsNotPublishedAgain ==
    [][\A p \in Passes :
          /\ passPc'[p] = "commit"
               /\ (passPc[p] # "commit" \/ passIdx'[p] # passIdx[p])
             => ~StoredAsCompleted(JobOf(p))'
          /\ passPc[p] = "commit" /\ passPc'[p] = "update"
               /\ passLog'[p][Len(passLog'[p])].success
             => ~StoredAsCompleted(JobOf(p))]_vars

\* a publish has succeeded for a job the store already holds as completed
SecondSuccessfulPublish ==
    \E p \in Passes :
        /\ passPc[p] = "update"
        /\ passLog[p][Len(passLog[p])].success
        /\ StoredAsCompleted(JobOf(p))

\* ---------------------------------------------------------------------
\* C35: a stored job becomes completed only in the step in which a pass,
\* whose publish of that job's content to that job's path has just returned
\* success, has its update written.
C35_CompletedOnlyAfterSuccessfulPublish ==
    [][\A k \in DOMAIN queueStore' :
          /\ queueStore'[k].status = "completed"
          /\ k \in DOMAIN queueStore => queueStore[k].status # "completed"
          => /\ k \in DOMAIN queueStore
             /\ \E p \in Passes :
                   /\ passPc[p] = "update"
                   /\ JobOf(p).id = k
                   /\ JobOf(p).content = queueStore'[k].content
                   /\ JobOf(p).path = queueStore'[k].path
                   /\ passLog[p][Len(passLog[p])].id = k
                   /\ passLog[p][Len(passLog[p])].success]_vars

\* C35's case: the update of a pass whose publish succeeded has just been
\* written, the store holds a completed job, and the in-memory list still has
\* a pending one.
C35_Witness ==
    /\ lastEvent.task \in {"updateNext", "updateEnd"}
    /\ lastEvent.notifications = <<"Note synced to GitHub">>
    /\ \E k \in DOMAIN queueStore : queueStore[k].status = "completed"
    /\ \E i \in 1..Len(syncQueue) : syncQueue[i].status = "pending"

\* ---------------------------------------------------------------------
Connectivity == IF online THEN "online" ELSE "offline"

\* C36: the indicator shows syncing exactly while this.isSyncing is true,
\* and navigator.onLine otherwise.
C36_IndicatorFollowsTheDrain ==
    indicator = IF isSyncing THEN "syncing" ELSE Connectivity

\* What holds: while no pass is in progress the indicator shows
\* navigator.onLine, and it shows syncing only while a pass is in progress.
IndicatorOutsideTheDrain ==
    /\ ~isSyncing => indicator = Connectivity
    /\ indicator = "syncing" => isSyncing

\* the device went offline during a pass
IndicatorOutsideTheDrainWitness ==
    /\ isSyncing
    /\ indicator = "offline"

\* ---------------------------------------------------------------------
\* forgetToken has just run, or the store.clear() it asked for is still
\* waiting: the token has been revoked.
JustRevoked ==
    \/ lastEvent.task = "forgetToken"
    \/ \E i \in 1..Len(txns) : txns[i] = ClearTxn

\* C37: once forgetToken has run, no step hands a job that carries a token
\* to commitToGitHub, be it in a pass that was already in progress.
C37_NoPublishWithRevokedToken ==
    [][JustRevoked
       => \A p \in Passes :
             passPc'[p] = "commit"
                /\ (passPc[p] # "commit" \/ passIdx'[p] # passIdx[p])
             => JobOf(p)'.token \in {"", Undefined}]_vars

\* ---------------------------------------------------------------------
\* The store is open, no processSyncQueue is running, no save is under way
\* and no transaction on 'queue' is waiting.
Quiescent ==
    /\ db = "open"
    /\ ActivePasses = {}
    /\ svPc = "idle"
    /\ txns = <<>>

\* C38: whenever the system is quiescent, this.syncQueue is what the 'queue'
\* store holds (and so is the pending count updateSyncUI shows).
C38_QuiescentListIsTheStore ==
    Quiescent => syncQueue = GetAll(queueStore)

\* What holds: the same, as long as every pass so far has released
\* this.isSyncing.
ReleasedListIsTheStore ==
    Quiescent /\ ~isSyncing => syncQueue = GetAll(queueStore)

\* quiescent after a pass in which a publish failed online; the list shows
\* the job as the store holds it
ReleasedListIsTheStoreWitness ==
    /\ Quiescent
    /\ ~isSyncing
    /\ \E i \in 1..Len(syncQueue) :
          /\ syncQueue[i].error = "Conflict"
          /\ queueStore[syncQueue[i].id] = syncQueue[i]

\* ---------------------------------------------------------------------
\* C39: when newNote or loadNote replaces the editor's content, the text the
\* editor held, if it is not blank, is in the 'notes' store under the id of
\* the note it belongs to; and an autosave changes no record but the one of
\* the current note.
C39_NoteSwitchLosesNothing ==
    [][/\ lastEvent'.task \in {"newNote", "loadNote"} /\ ~IsBlank(editor)
          => \E id \in DOMAIN notesStore' :
                /\ notesStore'[id] = editor
                /\ currentNote # Null => id = currentNote
       /\ lastEvent'.task = "autosaveNote"
          => \A id \in DOMAIN notesStore :
                notesStore'[id] # notesStore[id] => id = currentNote]_vars

\* What holds: with the store open, newNote saves the text of the editor
\* under the note's id before it empties the editor, and an autosave changes
\* no record but the one of the current note.
NewNoteSavesFirst ==
    [][/\ lastEvent'.task = "newNote" /\ ~IsBlank(editor) /\ db = "open"
          => /\ NoteIdFor(currentNote) \in DOMAIN notesStore'
             /\ notesStore'[NoteIdFor(currentNote)] = editor
       /\ lastEvent'.task = "autosaveNote"
          => \A id \in DOMAIN notesStore :
                notesStore'[id] # notesStore[id] => id = currentNote]_vars

\* newNote has just saved a text the autosave had not yet written
NewNoteSavesFirstWitness ==
    /\ lastEvent.task = "newNote"
    /\ editor = ""
    /\ autosaveTimer
    /\ \E id \in DOMAIN notesStore : notesStore[id] = "redraft"

====
